---- MODULE Spec2Model ----
(***************************************************************************)
(* The AURA calculator engine (src/calculators/web-app/vite.config.js):    *)
(* the monthly projection loop, the maturity schedule, and the financial   *)
(* metrics derived from a projection table (NPV, payback, IRR, full        *)
(* results), the value dimensions and the composite risk, and the two      *)
(* analyses built on calculateFullResults (runMonteCarloSimulation,        *)
(* runSensitivityAnalysis); the scenario store over localStorage           *)
(* (src/unnamed/part_002) and the CompareScenarios component that lists    *)
(* and selects the stored scenarios.                                       *)
(*                                                                         *)
(* Numbers.  A JavaScript number x is held as the integer x * Scale        *)
(* (fixed point, 1/1200 units); Scale is chosen so that every literal of   *)
(* the source (0.3, 0.7, 1.3, 1.8, 0.35, 0.15, 4.33, 0.10, 0.1/12) is an   *)
(* integer.  Products and quotients round down to the grid, as a double    *)
(* rounds to its own grid.  Month numbers, loop counters and lengths are   *)
(* plain integers.  The one quotient whose exact value a caller observes,  *)
(* the payback fraction, is kept as an exact ratio num/den.                *)
(***************************************************************************)
EXTENDS Integers, Sequences, FiniteSets, TLC

VARIABLES
    project,        \* the Project record handed to the engine
    month,          \* loop variable of calculateMonthlyProjections
    cumulativeNet,  \* the running accumulator of calculateMonthlyProjections
    projections,    \* the projection table built so far / handed to a metric
    source,         \* "engine": the table comes from calculateMonthlyProjections
                    \* "caller": the table was built by the caller
    pc,             \* the position of the running call or component
    ret,            \* what the last finished call returned
    irr,            \* locals of calculateIRR
    heap,           \* the objects an analysis works on, by reference
    run,            \* locals of runMonteCarloSimulation / runSensitivityAnalysis
    results,        \* the results array of the running analysis
    localStorage,   \* the item stored under STORAGE_KEY
    clock,          \* the time Date.now() reads, in milliseconds
    savedScenarios, \* state of the CompareScenarios component
    selectedScenarios   \* state of the CompareScenarios component

\* the state of the analyses (Monte Carlo, sensitivity)
analysisVars == <<heap, run, results>>

\* the scenario store and the component that lists it
storageVars == <<localStorage, clock, savedScenarios, selectedScenarios>>

vars == <<project, month, cumulativeNet, projections, source, pc, ret, irr,
          heap, run, results, localStorage, clock, savedScenarios, selectedScenarios>>

---------------------------------------------------------------------------
(* Bounds of the model *)

MaxDuration == 5
MaxStage == 2
MaxRows == 3
MaxIterations == 4
MaxFlows == 3

---------------------------------------------------------------------------
(* Fixed-point numbers *)

Scale == 12 * 100

Fx(n) == n * Scale

FxMul(a, b) == (a * b) \div Scale

FxDiv(a, b) == (a * Scale) \div b

RECURSIVE FxPow(_, _)
FxPow(b, k) == IF k <= 0 THEN Scale ELSE FxMul(FxPow(b, k - 1), b)

Abs(x) == IF x < 0 THEN -x ELSE x

Max(a, b) == IF a >= b THEN a ELSE b

Min(a, b) == IF a <= b THEN a ELSE b

RECURSIVE SumSeq(_)
SumSeq(s) == IF s = <<>> THEN 0 ELSE SumSeq(SubSeq(s, 1, Len(s) - 1)) + s[Len(s)]

---------------------------------------------------------------------------
(* Value dimensions *)

WEEKS_PER_MONTH == (433 * Scale) \div 100

\* A missing optional task field (volumePerWeek, errorCost, baselineErrorRate)
\* is held as 0: every read of these fields is a truthiness test, which
\* treats undefined and 0 alike.
RECURSIVE calculateDLA(_)
calculateDLA(tasks) ==
    IF tasks = <<>> THEN 0
    ELSE LET task == tasks[Len(tasks)]
             monthlyHours == FxMul(task.hoursPerWeek, WEEKS_PER_MONTH)
             effectiveAccuracy == FxMul(task.accuracy, Scale - task.oversightRate)
         IN  calculateDLA(SubSeq(tasks, 1, Len(tasks) - 1))
               + FxMul(FxMul(monthlyHours, task.hourlyRate), effectiveAccuracy)

\* A config object is a record with a `present` flag: present = FALSE is
\* null / undefined.
calculateTA(throughput) ==
    IF ~throughput.present \/ ~throughput.enabled THEN 0
    ELSE LET capacityIncrease == throughput.newCapacity - throughput.oldCapacity
         IN  IF capacityIncrease <= 0 THEN 0
             ELSE FxMul(FxMul(capacityIncrease, throughput.valuePerUnit),
                        throughput.utilizationRate)

\* mutant: the error reduction is not floored at 0
RECURSIVE calculateDQPSigned(_)
calculateDQPSigned(tasks) ==
    IF tasks = <<>> THEN 0
    ELSE LET task == tasks[Len(tasks)]
             rest == calculateDQPSigned(SubSeq(tasks, 1, Len(tasks) - 1))
             decisionsPerMonth ==
                 IF task.volumePerWeek # 0
                 THEN FxMul(task.volumePerWeek, WEEKS_PER_MONTH) ELSE 0
             aiErrorRate == Scale - task.accuracy
             errorReduction == task.baselineErrorRate - aiErrorRate
         IN  IF task.errorCost = 0 \/ task.baselineErrorRate = 0 THEN rest
             ELSE rest + FxMul(FxMul(decisionsPerMonth, errorReduction), task.errorCost)

RECURSIVE calculateDQP(_)
calculateDQP(tasks) ==
    IF tasks = <<>> THEN 0
    ELSE LET task == tasks[Len(tasks)]
             rest == calculateDQP(SubSeq(tasks, 1, Len(tasks) - 1))
             decisionsPerMonth ==
                 IF task.volumePerWeek # 0
                 THEN FxMul(task.volumePerWeek, WEEKS_PER_MONTH) ELSE 0
             aiErrorRate == Scale - task.accuracy
             errorReduction == Max(0, task.baselineErrorRate - aiErrorRate)
         IN  IF task.errorCost = 0 \/ task.baselineErrorRate = 0 THEN rest
             ELSE rest + FxMul(FxMul(decisionsPerMonth, errorReduction), task.errorCost)

calculateLV(latency) ==
    IF ~latency.present \/ ~latency.enabled THEN 0
    ELSE LET timeSaved == latency.oldTimeHours - latency.newTimeHours
         IN  IF timeSaved <= 0 THEN 0
             ELSE FxMul(FxMul(FxMul(latency.transactionsPerMonth, timeSaved),
                              latency.valuePerHourSaved),
                        latency.sensitivityFactor)

calculateOLV(optionality) ==
    IF ~optionality.present \/ ~optionality.enabled THEN 0
    ELSE LET annualValue == optionality.processInsights + optionality.dataAssets
                              + optionality.capabilityOptions
         IN  FxMul(annualValue \div 12, optionality.probabilityFactor)

\* mutant: the vendor weight is 0.25, so the weights sum to 1.1
calculateCompositeRiskHeavyVendor(risks) ==
    FxMul(risks.technical, (35 * Scale) \div 100)
      + FxMul(risks.adoption, (35 * Scale) \div 100)
      + FxMul(risks.regulatory, (15 * Scale) \div 100)
      + FxMul(risks.vendor, (25 * Scale) \div 100)

calculateCompositeRisk(risks) ==
    FxMul(risks.technical, (35 * Scale) \div 100)
      + FxMul(risks.adoption, (35 * Scale) \div 100)
      + FxMul(risks.regulatory, (15 * Scale) \div 100)
      + FxMul(risks.vendor, (15 * Scale) \div 100)

---------------------------------------------------------------------------
(* Maturity schedule *)

getMaturityMultiplier(m, maturityConfig) ==
    LET pilot == maturityConfig.pilot
        proven == maturityConfig.proven
        scaled == maturityConfig.scaled
        learningRate == maturityConfig.learningRate
        monthsInOptimized == m - (pilot + proven + scaled)
        growth == FxPow(Scale + learningRate, monthsInOptimized)
    IN  IF m <= pilot THEN (3 * Scale) \div 10
        ELSE IF m <= pilot + proven THEN (7 * Scale) \div 10
        ELSE IF m <= pilot + proven + scaled THEN Scale
        ELSE Min(FxMul((13 * Scale) \div 10, growth), (18 * Scale) \div 10)

\* mutant: the pilot boundary month already counts as Proven
getMaturityStageStrict(m, maturityConfig) ==
    IF m < maturityConfig.pilot THEN "Pilot"
    ELSE IF m <= maturityConfig.pilot + maturityConfig.proven THEN "Proven"
    ELSE IF m <= maturityConfig.pilot + maturityConfig.proven + maturityConfig.scaled
         THEN "Scaled"
    ELSE "Optimized"

\* mutant: a stage is recognised only in its boundary month
getMaturityStageAtBoundary(m, maturityConfig) ==
    LET pilot == maturityConfig.pilot
        proven == maturityConfig.proven
        scaled == maturityConfig.scaled
    IN  IF m = pilot THEN "Pilot"
        ELSE IF m = pilot + proven THEN "Proven"
        ELSE IF m = pilot + proven + scaled THEN "Scaled"
        ELSE "Optimized"

getMaturityStage(m, maturityConfig) ==
    LET pilot == maturityConfig.pilot
        proven == maturityConfig.proven
        scaled == maturityConfig.scaled
    IN  IF m <= pilot THEN "Pilot"
        ELSE IF m <= pilot + proven THEN "Proven"
        ELSE IF m <= pilot + proven + scaled THEN "Scaled"
        ELSE "Optimized"

---------------------------------------------------------------------------
(* Projection engine: locals of calculateMonthlyProjections *)

baseMonthlyValue(p) ==
    calculateDLA(p.tasks) + calculateTA(p.throughput) + calculateDQP(p.tasks)
      + calculateLV(p.latency) + calculateOLV(p.optionality)

riskAdjustment(p) == Scale - calculateCompositeRisk(p.risks)

initialCost(costs) ==
    costs.initialDevelopment + costs.trainingInitial + costs.changeManagement

monthlyCost(costs) ==
    costs.platformMonthly
      + FxMul(costs.apiCostPerCall, costs.estimatedCallsPerMonth)
      + costs.maintenanceMonthly
      + costs.trainingOngoing

\* mutant: the loop stops one month early
projectionGuardStrict(m, duration) == m < duration

\* the loop condition of line 168
projectionGuard(m, duration) == m <= duration

\* mutant: the one-time cost is charged every month
rowCostEveryMonth(m, costs) == initialCost(costs) + monthlyCost(costs)

\* cost of the row of month m (line 174)
rowCost(m, costs) ==
    IF m = 1 THEN initialCost(costs) + monthlyCost(costs) ELSE monthlyCost(costs)

\* mutant: the accumulator starts at zero
cumulativeSeedZero(costs) == 0

\* the accumulator before the loop (line 165)
cumulativeSeed(costs) == -initialCost(costs)

\* the row pushed for month m, given the accumulator before this month
\* mutant: the breakdown holds the base values, not scaled by the multiplier
breakdownUnscaled(p, multiplier) ==
    [ dla |-> calculateDLA(p.tasks),
      ta  |-> calculateTA(p.throughput),
      dqp |-> calculateDQP(p.tasks),
      lv  |-> calculateLV(p.latency),
      olv |-> calculateOLV(p.optionality) ]

\* the breakdown of a row (lines 185-191)
breakdownOf(p, multiplier) ==
    [ dla |-> FxMul(calculateDLA(p.tasks), multiplier),
      ta  |-> FxMul(calculateTA(p.throughput), multiplier),
      dqp |-> FxMul(calculateDQP(p.tasks), multiplier),
      lv  |-> FxMul(calculateLV(p.latency), multiplier),
      olv |-> FxMul(calculateOLV(p.optionality), multiplier) ]

projectionRow(p, m, cumBefore) ==
    LET multiplier == getMaturityMultiplier(m, p.maturity)
        stage == getMaturityStage(m, p.maturity)
        grossValue == FxMul(baseMonthlyValue(p), multiplier)
        riskAdjustedValue == FxMul(grossValue, riskAdjustment(p))
        cost == rowCost(m, p.costs)
        netValue == riskAdjustedValue - cost
    IN  [ month |-> m,
          stage |-> stage,
          multiplier |-> multiplier,
          grossValue |-> grossValue,
          riskAdjustedValue |-> riskAdjustedValue,
          cost |-> cost,
          netValue |-> netValue,
          cumulativeNet |-> cumBefore + netValue,
          breakdown |-> breakdownOf(p, multiplier) ]

---------------------------------------------------------------------------
(* Financial metrics *)

\* a result that is either null or a number num/den (den > 0)
Null == [isNull |-> TRUE, num |-> 0, den |-> 1]

Number(n, d) == [isNull |-> FALSE, num |-> n, den |-> d]

\* mutant: a discount rate of 0 is replaced by the default 0.10
RECURSIVE calculateNPVDefaultRate(_, _)
calculateNPVDefaultRate(rows, discountRate) ==
    IF rows = <<>> THEN 0
    ELSE LET rate == IF discountRate # 0 THEN discountRate ELSE Scale \div 10
             monthlyRate == rate \div 12
             p == rows[Len(rows)]
             discountFactor == FxPow(Scale + monthlyRate, p.month)
         IN  calculateNPVDefaultRate(SubSeq(rows, 1, Len(rows) - 1), discountRate)
               + FxDiv(p.netValue, discountFactor)

RECURSIVE calculateNPV(_, _)
calculateNPV(rows, discountRate) ==
    IF rows = <<>> THEN 0
    ELSE LET monthlyRate == discountRate \div 12
             p == rows[Len(rows)]
             discountFactor == FxPow(Scale + monthlyRate, p.month)
         IN  calculateNPV(SubSeq(rows, 1, Len(rows) - 1), discountRate)
               + FxDiv(p.netValue, discountFactor)

\* mutant: break-even needs a strictly positive cumulative net
RECURSIVE paybackFromPositive(_, _)
paybackFromPositive(rows, i) ==
    IF i > Len(rows) THEN Null
    ELSE IF rows[i].cumulativeNet > 0
         THEN IF i = 1 THEN Number(rows[i].month, 1)
              ELSE LET prev == rows[i - 1]
                       curr == rows[i]
                       valueChange == curr.cumulativeNet - prev.cumulativeNet
                   IN  IF valueChange # 0
                       THEN Number(prev.month * valueChange + (-prev.cumulativeNet),
                                   valueChange)
                       ELSE Number(curr.month, 1)
         ELSE paybackFromPositive(rows, i + 1)

\* mutant: the fraction is added to the current month, not the previous one
RECURSIVE paybackFromCurrent(_, _)
paybackFromCurrent(rows, i) ==
    IF i > Len(rows) THEN Null
    ELSE IF rows[i].cumulativeNet >= 0
         THEN IF i = 1 THEN Number(rows[i].month, 1)
              ELSE LET prev == rows[i - 1]
                       curr == rows[i]
                       valueChange == curr.cumulativeNet - prev.cumulativeNet
                   IN  IF valueChange # 0
                       THEN Number(curr.month * valueChange + (-prev.cumulativeNet),
                                   valueChange)
                       ELSE Number(curr.month, 1)
         ELSE paybackFromCurrent(rows, i + 1)

\* the body of the for loop of calculatePaybackPeriod from index i on
\* mutant: the month's netValue is tested instead of the cumulative series
RECURSIVE paybackFromNetValue(_, _)
paybackFromNetValue(rows, i) ==
    IF i > Len(rows) THEN Null
    ELSE IF rows[i].netValue >= 0
         THEN IF i = 1 THEN Number(rows[i].month, 1)
              ELSE LET prev == rows[i - 1]
                       curr == rows[i]
                       valueChange == curr.cumulativeNet - prev.cumulativeNet
                   IN  IF valueChange # 0
                       THEN Number(prev.month * valueChange + (-prev.cumulativeNet),
                                   valueChange)
                       ELSE Number(curr.month, 1)
         ELSE paybackFromNetValue(rows, i + 1)

\* (i is 1-based here, 0-based in the source)
RECURSIVE paybackFrom(_, _)
paybackFrom(rows, i) ==
    IF i > Len(rows) THEN Null
    ELSE IF rows[i].cumulativeNet >= 0
         THEN IF i = 1 THEN Number(rows[i].month, 1)
              ELSE LET prev == rows[i - 1]
                       curr == rows[i]
                       valueChange == curr.cumulativeNet - prev.cumulativeNet
                   IN  IF valueChange # 0
                       THEN Number(prev.month * valueChange + (-prev.cumulativeNet),
                                   valueChange)
                       ELSE Number(curr.month, 1)
         ELSE paybackFrom(rows, i + 1)

calculatePaybackPeriod(rows) == paybackFrom(rows, 1)

---------------------------------------------------------------------------
(* Inputs: the projects and tables the model is run on *)

Task(hours, rate, acc, oversight, volume, errCost, baseErr) ==
    [ hoursPerWeek |-> hours, hourlyRate |-> rate, accuracy |-> acc,
      oversightRate |-> oversight, volumePerWeek |-> volume,
      errorCost |-> errCost, baselineErrorRate |-> baseErr ]

\* 1 h/week at $5, perfect accuracy, no oversight, no decision-quality fields
PlainTask == Task(Fx(1), Fx(5), Scale, 0, 0, 0, 0)

\* 1 h/week at $5, accuracy 0.9, oversight 0.1, 10 decisions/week,
\* $2 per error, baseline error rate 0.2
QualityTask == Task(Fx(1), Fx(5), (9 * Scale) \div 10, Scale \div 10,
                    Fx(10), Fx(2), Scale \div 5)

NoThroughput ==
    [ present |-> FALSE, enabled |-> FALSE, oldCapacity |-> 0, newCapacity |-> 0,
      valuePerUnit |-> 0, utilizationRate |-> 0 ]

NoLatency ==
    [ present |-> FALSE, enabled |-> FALSE, oldTimeHours |-> 0, newTimeHours |-> 0,
      transactionsPerMonth |-> 0, valuePerHourSaved |-> 0, sensitivityFactor |-> 0 ]

NoOptionality ==
    [ present |-> FALSE, enabled |-> FALSE, processInsights |-> 0, dataAssets |-> 0,
      capabilityOptions |-> 0, probabilityFactor |-> 0 ]

\* capacity 10 -> 15 units at $2, utilisation 0.8: $8 a month
SomeThroughput ==
    [ present |-> TRUE, enabled |-> TRUE, oldCapacity |-> Fx(10), newCapacity |-> Fx(15),
      valuePerUnit |-> Fx(2), utilizationRate |-> (8 * Scale) \div 10 ]

\* 10 transactions, 2 h -> 1 h, $1 per hour saved, sensitivity 0.5: $5 a month
SomeLatency ==
    [ present |-> TRUE, enabled |-> TRUE, oldTimeHours |-> Fx(2), newTimeHours |-> Fx(1),
      transactionsPerMonth |-> Fx(10), valuePerHourSaved |-> Fx(1),
      sensitivityFactor |-> Scale \div 2 ]

\* $120 + $60 + $60 a year at probability 0.5: $10 a month
SomeOptionality ==
    [ present |-> TRUE, enabled |-> TRUE, processInsights |-> Fx(120),
      dataAssets |-> Fx(60), capabilityOptions |-> Fx(60),
      probabilityFactor |-> Scale \div 2 ]

Risks(t, a, r, v) == [ technical |-> t, adoption |-> a, regulatory |-> r, vendor |-> v ]

\* the value side of a project: tasks, optional dimensions and risks
ValueOptions ==
    { [ tasks |-> <<>>, throughput |-> NoThroughput, latency |-> NoLatency,
        optionality |-> NoOptionality, risks |-> Risks(0, 0, 0, 0) ],
      [ tasks |-> <<PlainTask>>, throughput |-> NoThroughput, latency |-> NoLatency,
        optionality |-> NoOptionality,
        risks |-> Risks(Scale \div 5, (3 * Scale) \div 10, Scale \div 10, Scale \div 10) ],
      [ tasks |-> <<PlainTask, QualityTask>>, throughput |-> SomeThroughput,
        latency |-> SomeLatency, optionality |-> SomeOptionality,
        risks |-> Risks(0, Scale \div 5, 0, Scale \div 5) ],
      [ tasks |-> <<QualityTask>>, throughput |-> [SomeThroughput EXCEPT !.enabled = FALSE],
        latency |-> SomeLatency, optionality |-> NoOptionality,
        risks |-> Risks(Scale, Scale, Scale, Scale) ] }

Costs(dev, train, change, platform, api, calls, maint, ongoing) ==
    [ initialDevelopment |-> dev, trainingInitial |-> train, changeManagement |-> change,
      platformMonthly |-> platform, apiCostPerCall |-> api,
      estimatedCallsPerMonth |-> calls, maintenanceMonthly |-> maint,
      trainingOngoing |-> ongoing ]

CostOptions ==
    { Costs(0, 0, 0, 0, 0, 0, 0, 0),
      Costs(Fx(30), Fx(5), Fx(3), Fx(2), Scale \div 100, Fx(100), Fx(1), Scale \div 2),
      Costs(Fx(10), 0, 0, 0, 0, 0, 0, 0),
      Costs(0, 0, Fx(1), Fx(4), 0, 0, 0, Fx(1)) }

LearningRates == { 0, Scale \div 10, Scale \div 2 }

MaturityConfigs ==
    [ pilot : 0..MaxStage, proven : 0..MaxStage, scaled : 0..MaxStage,
      learningRate : LearningRates ]

\* annual discount rates; 0 also stands for a project without the field
DiscountRates == { 0, Scale \div 10, Scale \div 5 }

Project(v, c, d, m, r) ==
    [ tasks |-> v.tasks, costs |-> c, risks |-> v.risks, throughput |-> v.throughput,
      latency |-> v.latency, optionality |-> v.optionality, duration |-> d,
      maturity |-> m, discountRate |-> r ]

\* a table written by the caller, as the unit tests do
CallerRow(m, net, cum) == [ month |-> m, netValue |-> net, cumulativeNet |-> cum ]

NetValues == { Fx(-1), 0, Fx(2) }

CumulativeValues == { Fx(-3), Fx(-1), 0, Fx(1) }

\* n rows of consecutive months from `first` on
CallerTable(n, first, nets, cums) ==
    [ i \in 1..n |-> CallerRow(first + i - 1, nets[i], cums[i]) ]

NoProject == [ duration |-> 0 ]

NoRet == [ op |-> "none" ]

NoIrr == [ maxIterations |-> 0, tolerance |-> 0, i |-> 0, rate |-> 0 ]

NoHeap == << >>

NoRun == [ op |-> "none" ]

\* no analysis is running
NoAnalysis == heap = NoHeap /\ run = NoRun /\ results = << >>

\* localStorage.getItem(STORAGE_KEY) returns null: nothing is stored
NoItem == [ state |-> "null", list |-> << >> ]

\* the store and the component are not in use
NoStorage ==
    /\ localStorage = NoItem
    /\ clock = 0
    /\ savedScenarios = << >>
    /\ selectedScenarios = << >>

---------------------------------------------------------------------------
(* calculateIRR *)

\* Inside the Newton iteration a value can leave any bounded range.  A
\* magnitude above IntLimit, or a division by zero, is the non-finite value
\* NaN, which every later operation propagates and every comparison rejects
\* (Infinity and NaN are not told apart).
IntLimit == 2 ^ 29

NaN == IntLimit + 1

Neg(a) == IF a = NaN THEN NaN ELSE -a

NumAdd(a, b) ==
    IF a = NaN \/ b = NaN THEN NaN
    ELSE IF Abs(a + b) > IntLimit THEN NaN ELSE a + b

\* n a plain integer
NumTimes(n, a) ==
    IF a = NaN THEN NaN
    ELSE IF n = 0 \/ a = 0 THEN 0
    ELSE IF Abs(a) > IntLimit \div Abs(n) THEN NaN ELSE n * a

NumMul(a, b) ==
    IF a = NaN \/ b = NaN THEN NaN
    ELSE IF a = 0 \/ b = 0 THEN 0
    ELSE IF Abs(a) > IntLimit \div Abs(b) THEN NaN ELSE (a * b) \div Scale

NumDiv(a, b) ==
    IF a = NaN \/ b = NaN \/ b = 0 THEN NaN
    ELSE IF Abs(a) > IntLimit \div Scale THEN NaN ELSE (a * Scale) \div b

RECURSIVE NumPow(_, _)
NumPow(b, k) == IF k <= 0 THEN Scale ELSE NumMul(NumPow(b, k - 1), b)

\* |a| < tolerance, false for NaN
AbsBelow(a, tolerance) == a # NaN /\ Abs(a) < tolerance

cashFlowsOf(rows) == [t \in 1..Len(rows) |-> rows[t].netValue]

\* mutant: a zero cash flow counts as neither sign
sameSignStrict(cashFlows) ==
    \/ \A t \in 1..Len(cashFlows) : cashFlows[t] > 0
    \/ \A t \in 1..Len(cashFlows) : cashFlows[t] < 0

\* the early return of lines 228-230
sameSign(cashFlows) ==
    \/ \A t \in 1..Len(cashFlows) : cashFlows[t] >= 0
    \/ \A t \in 1..Len(cashFlows) : cashFlows[t] <= 0

\* the forEach of lines 238-243 over the first n cash flows
RECURSIVE newtonSums(_, _, _)
newtonSums(cashFlows, rate, n) ==
    IF n = 0 THEN [npv |-> 0, npvDerivative |-> 0]
    ELSE LET before == newtonSums(cashFlows, rate, n - 1)
             cf == cashFlows[n]
             period == n
             discount == NumPow(NumAdd(Scale, rate), period)
         IN  [ npv |-> NumAdd(before.npv, NumDiv(cf, discount)),
               npvDerivative |->
                   NumAdd(before.npvDerivative,
                          Neg(NumDiv(NumTimes(period, cf),
                                     NumMul(discount, NumAdd(Scale, rate))))) ]

\* one pass of the for loop body (lines 235-254): what it does with the
\* current rate
newtonPass(cashFlows, rate, tolerance) ==
    LET sums == newtonSums(cashFlows, rate, Len(cashFlows))
        newRate == NumAdd(rate, Neg(NumDiv(sums.npv, sums.npvDerivative)))
        annualRate == NumAdd(NumPow(NumAdd(Scale, newRate), 12), -Scale)
    IN  IF AbsBelow(sums.npvDerivative, tolerance)
        THEN [ kind |-> "flatDerivative", rate |-> rate, value |-> Null ]
        ELSE IF AbsBelow(NumAdd(newRate, Neg(rate)), tolerance)
        THEN [ kind |-> "converged", rate |-> rate,
               value |-> Number(NumTimes(100, annualRate), Scale) ]
        ELSE [ kind |-> "continue", rate |-> newRate, value |-> Null ]

\* the loop condition of line 234
newtonGuard(i, maxIterations) == i < maxIterations

\* mutant: the last estimate is returned when the budget runs out
irrAfterLoopLastRate(rate) == Number(rate, Scale)

\* the statement after the loop (line 257)
irrAfterLoop(rate) == Null

\* the monthly starting rate 0.1 / 12 (line 232)
initialRate == (Scale \div 10) \div 12

\* k further passes of the for loop (lines 234-255) from the loop state st;
\* a state whose kind is not "continue" has returned.  The passes are taken
\* in two halves so that a full budget of passes is evaluated at small depth.
RECURSIVE irrPasses(_, _, _, _)
irrPasses(cashFlows, st, k, tolerance) ==
    IF st.kind # "continue" \/ k <= 0 THEN st
    ELSE IF k = 1 THEN newtonPass(cashFlows, st.rate, tolerance)
    ELSE LET half == k \div 2
             mid == irrPasses(cashFlows, st, half, tolerance)
         IN  IF mid.kind # "continue" THEN mid
             ELSE irrPasses(cashFlows, mid, k - half, tolerance)

\* calculateIRR as one call: the early return, then the loop from pass i
irrLoop(cashFlows, rate, i, maxIterations, tolerance) ==
    LET budget == IF newtonGuard(i, maxIterations) THEN maxIterations - i ELSE 0
        last == irrPasses(cashFlows,
                          [ kind |-> "continue", rate |-> rate, value |-> Null ],
                          budget, tolerance)
    IN  IF last.kind = "continue" THEN irrAfterLoop(last.rate) ELSE last.value

calculateIRR(rows, maxIterations, tolerance) ==
    IF sameSign(cashFlowsOf(rows)) THEN Null
    ELSE irrLoop(cashFlowsOf(rows), initialRate, 0, maxIterations, tolerance)

\* the defaults of calculateIRR: maxIterations = 100, tolerance = 1e-6.  On
\* the grid |x| < 1e-6 holds exactly when x = 0, which is |x| < 1 unit.
DefaultMaxIterations == 100

DefaultTolerance == 1

\* calculateFullResults after its call of calculateMonthlyProjections
fullResults(p, rows) ==
    LET totalGross == SumSeq([i \in 1..Len(rows) |-> rows[i].grossValue])
        totalRiskAdjusted == SumSeq([i \in 1..Len(rows) |-> rows[i].riskAdjustedValue])
        totalCost == SumSeq([i \in 1..Len(rows) |-> rows[i].cost])
        dla == calculateDLA(p.tasks)
        ta == calculateTA(p.throughput)
        dqp == calculateDQP(p.tasks)
        lv == calculateLV(p.latency)
        olv == calculateOLV(p.optionality)
    IN  [ totalGross |-> totalGross,
          totalRiskAdjusted |-> totalRiskAdjusted,
          totalCost |-> totalCost,
          npv |-> calculateNPV(rows, IF p.discountRate # 0 THEN p.discountRate
                                     ELSE Scale \div 10),
          payback |-> calculatePaybackPeriod(rows),
          irr |-> calculateIRR(rows, DefaultMaxIterations, DefaultTolerance),
          roi |-> IF totalCost > 0
                  THEN FxDiv(totalRiskAdjusted - totalCost, totalCost) * 100
                  ELSE 0,
          valueBreakdown |-> [ dla |-> dla, ta |-> ta, dqp |-> dqp, lv |-> lv,
                               olv |-> olv, total |-> dla + ta + dqp + lv + olv ],
          compositeRisk |-> calculateCompositeRisk(p.risks),
          riskAdjustment |-> Scale - calculateCompositeRisk(p.risks) ]

\* the for loop of calculateMonthlyProjections from month m on, as one call
RECURSIVE projectionLoop(_, _, _, _)
projectionLoop(p, m, cumBefore, rows) ==
    IF ~projectionGuard(m, p.duration) THEN rows
    ELSE LET row == projectionRow(p, m, cumBefore)
         IN  projectionLoop(p, m + 1, row.cumulativeNet, Append(rows, row))

calculateMonthlyProjections(p) == projectionLoop(p, 1, cumulativeSeed(p.costs), << >>)

calculateFullResults(p) == fullResults(p, calculateMonthlyProjections(p))

Tolerances == { 1, Scale \div 100, Scale \div 10 }

CashFlowValues == { Fx(-2), Fx(-1), 0, Fx(1), Fx(2) }

\* a table of which calculateIRR reads the net values only
IRRTable(n, cfs) == [ t \in 1..n |-> CallerRow(t, cfs[t], 0) ]

---------------------------------------------------------------------------
(* State machine *)

InitEngine ==
    /\ \E v \in ValueOptions, c \in CostOptions, d \in 0..MaxDuration,
          m \in MaturityConfigs, r \in DiscountRates :
         project = Project(v, c, d, m, r)
    /\ month = 1
    /\ cumulativeNet = cumulativeSeed(project.costs)
    /\ projections = <<>>
    /\ source = "engine"
    /\ pc = "loop"
    /\ ret = NoRet
    /\ irr = NoIrr
    /\ NoAnalysis
    /\ NoStorage

InitCaller ==
    /\ project = NoProject
    /\ month = 0
    /\ cumulativeNet = 0
    /\ \E n \in 0..MaxRows :
         \E first \in 1..2, nets \in [1..n -> NetValues],
            cums \in [1..n -> CumulativeValues] :
           projections = CallerTable(n, first, nets, cums)
    /\ source = "caller"
    /\ pc = "table"
    /\ ret = NoRet
    /\ irr = NoIrr
    /\ NoAnalysis
    /\ NoStorage

Init == InitEngine \/ InitCaller

\* one pass of the for loop of calculateMonthlyProjections
ProjectionStep ==
    /\ pc = "loop"
    /\ projectionGuard(month, project.duration)
    /\ LET row == projectionRow(project, month, cumulativeNet)
       IN  /\ projections' = Append(projections, row)
           /\ cumulativeNet' = row.cumulativeNet
    /\ month' = month + 1
    /\ UNCHANGED <<project, source, pc, ret, irr>>
    /\ UNCHANGED analysisVars
    /\ UNCHANGED storageVars

\* the loop ends and the table is returned
ProjectionReturn ==
    /\ pc = "loop"
    /\ ~projectionGuard(month, project.duration)
    /\ pc' = "table"
    /\ UNCHANGED <<project, month, cumulativeNet, projections, source, ret, irr>>
    /\ UNCHANGED analysisVars
    /\ UNCHANGED storageVars

CallNPV(discountRate) ==
    /\ pc = "table"
    /\ ret' = [ op |-> "calculateNPV", discountRate |-> discountRate,
                value |-> calculateNPV(projections, discountRate) ]
    /\ pc' = "done"
    /\ UNCHANGED <<project, month, cumulativeNet, projections, source, irr>>
    /\ UNCHANGED analysisVars
    /\ UNCHANGED storageVars

CallPaybackPeriod ==
    /\ pc = "table"
    /\ ret' = [ op |-> "calculatePaybackPeriod",
                value |-> calculatePaybackPeriod(projections) ]
    /\ pc' = "done"
    /\ UNCHANGED <<project, month, cumulativeNet, projections, source, irr>>
    /\ UNCHANGED analysisVars
    /\ UNCHANGED storageVars

\* calculateFullResults(project): the table is the one its own call of
\* calculateMonthlyProjections returned
CallFullResults ==
    /\ pc = "table"
    /\ source = "engine"
    /\ ret' = [ op |-> "calculateFullResults",
                value |-> fullResults(project, projections) ]
    /\ pc' = "done"
    /\ UNCHANGED <<project, month, cumulativeNet, projections, source, irr>>
    /\ UNCHANGED analysisVars
    /\ UNCHANGED storageVars

Next ==
    \/ ProjectionStep
    \/ ProjectionReturn
    \/ \E r \in DiscountRates : CallNPV(r)
    \/ CallPaybackPeriod
    \/ CallFullResults

Spec == Init /\ [][Next]_vars

---------------------------------------------------------------------------
(* calculateIRR(projections, maxIterations, tolerance) as a state machine *)

InitIRR ==
    /\ project = NoProject
    /\ month = 0
    /\ cumulativeNet = 0
    /\ \E n \in 0..MaxFlows :
         \E cfs \in [1..n -> CashFlowValues] : projections = IRRTable(n, cfs)
    /\ source = "caller"
    /\ pc = "table"
    /\ ret = NoRet
    /\ \E mi \in 0..MaxIterations, tol \in Tolerances :
         irr = [ maxIterations |-> mi, tolerance |-> tol, i |-> 0, rate |-> 0 ]
    /\ NoAnalysis
    /\ NoStorage

\* lines 226-232
IRRSignCheck ==
    /\ pc = "table"
    /\ IF sameSign(cashFlowsOf(projections))
       THEN /\ ret' = [ op |-> "calculateIRR", via |-> "sameSign", value |-> Null ]
            /\ pc' = "done"
            /\ irr' = irr
       ELSE /\ irr' = [ irr EXCEPT !.rate = initialRate, !.i = 0 ]
            /\ pc' = "newton"
            /\ ret' = ret
    /\ UNCHANGED <<project, month, cumulativeNet, projections, source>>
    /\ UNCHANGED analysisVars
    /\ UNCHANGED storageVars

\* one pass of the for loop of lines 234-255
IRRIterate ==
    /\ pc = "newton"
    /\ newtonGuard(irr.i, irr.maxIterations)
    /\ LET pass == newtonPass(cashFlowsOf(projections), irr.rate, irr.tolerance)
       IN  IF pass.kind = "continue"
           THEN /\ irr' = [ irr EXCEPT !.rate = pass.rate, !.i = irr.i + 1 ]
                /\ UNCHANGED <<pc, ret>>
           ELSE /\ ret' = [ op |-> "calculateIRR", via |-> pass.kind,
                            value |-> pass.value ]
                /\ pc' = "done"
                /\ irr' = irr
    /\ UNCHANGED <<project, month, cumulativeNet, projections, source>>
    /\ UNCHANGED analysisVars
    /\ UNCHANGED storageVars

\* the loop condition fails: line 257
IRRExhausted ==
    /\ pc = "newton"
    /\ ~newtonGuard(irr.i, irr.maxIterations)
    /\ ret' = [ op |-> "calculateIRR", via |-> "exhausted",
                value |-> irrAfterLoop(irr.rate) ]
    /\ pc' = "done"
    /\ UNCHANGED <<project, month, cumulativeNet, projections, source, irr>>
    /\ UNCHANGED analysisVars
    /\ UNCHANGED storageVars

NextIRR == IRRSignCheck \/ IRRIterate \/ IRRExhausted

SpecIRR == InitIRR /\ [][NextIRR]_vars

---------------------------------------------------------------------------
(* The pure functions called on their own: the value dimensions, the       *)
(* composite risk (through calculateFullResults) and the maturity          *)
(* multiplier.                                                             *)

\* risk scalars, two of them outside [0, 1]; all are multiples of 1/60, so
\* that the four weighted products are exact on the grid
RiskScalars == { -(Scale \div 2), 0, Scale \div 2, Scale, (3 * Scale) \div 2 }

ThroughputOptions ==
    { NoThroughput } \cup
    [ present : {TRUE}, enabled : BOOLEAN, oldCapacity : {0, Fx(10), Fx(15)},
      newCapacity : {0, Fx(10), Fx(15)}, valuePerUnit : {0, Fx(2)},
      utilizationRate : {0, (8 * Scale) \div 10} ]

LatencyOptions ==
    { NoLatency } \cup
    [ present : {TRUE}, enabled : BOOLEAN, oldTimeHours : {0, Fx(1), Fx(2)},
      newTimeHours : {0, Fx(1), Fx(2)}, transactionsPerMonth : {0, Fx(10)},
      valuePerHourSaved : {Fx(1)}, sensitivityFactor : {Scale \div 2, Scale} ]

OptionalityOptions ==
    { NoOptionality } \cup
    [ present : {TRUE}, enabled : BOOLEAN, processInsights : {0, Fx(120)},
      dataAssets : {0, Fx(60)}, capabilityOptions : {Fx(60)},
      probabilityFactor : {0, Scale \div 2} ]

\* tasks with and without the decision-quality fields, and with an AI error
\* rate below, at and above the baseline error rate
TaskOptions ==
    { Task(Fx(1), Fx(5), acc, Scale \div 10, volume, errCost, baseErr) :
        acc \in { Scale \div 2, (8 * Scale) \div 10, (9 * Scale) \div 10, Scale },
        volume \in { 0, Fx(10) }, errCost \in { 0, Fx(2) },
        baseErr \in { 0, Scale \div 10, Scale \div 5 } }

\* learning rates, one of them negative (the value decays month on month)
FnLearningRates == LearningRates \cup { -(Scale \div 2) }

\* a project of MaxDuration months with one month in each of the first three
\* stages; its risks are replaced by the caller
FnProject(v) ==
    Project(v, Costs(Fx(10), 0, 0, Fx(2), 0, 0, Fx(1), 0), MaxDuration,
            [ pilot |-> 1, proven |-> 1, scaled |-> 1, learningRate |-> Scale \div 10 ],
            Scale \div 10)

InitFn ==
    /\ project = NoProject
    /\ month = 0
    /\ cumulativeNet = 0
    /\ projections = << >>
    /\ source = "caller"
    /\ pc = "call"
    /\ ret = NoRet
    /\ irr = NoIrr
    /\ NoAnalysis
    /\ NoStorage

FnTA(throughput) ==
    /\ pc = "call"
    /\ ret' = [ op |-> "calculateTA", arg |-> throughput,
                value |-> calculateTA(throughput) ]
    /\ pc' = "done"
    /\ UNCHANGED <<project, month, cumulativeNet, projections, source, irr>>
    /\ UNCHANGED analysisVars
    /\ UNCHANGED storageVars

FnLV(latency) ==
    /\ pc = "call"
    /\ ret' = [ op |-> "calculateLV", arg |-> latency, value |-> calculateLV(latency) ]
    /\ pc' = "done"
    /\ UNCHANGED <<project, month, cumulativeNet, projections, source, irr>>
    /\ UNCHANGED analysisVars
    /\ UNCHANGED storageVars

FnOLV(optionality) ==
    /\ pc = "call"
    /\ ret' = [ op |-> "calculateOLV", arg |-> optionality,
                value |-> calculateOLV(optionality) ]
    /\ pc' = "done"
    /\ UNCHANGED <<project, month, cumulativeNet, projections, source, irr>>
    /\ UNCHANGED analysisVars
    /\ UNCHANGED storageVars

FnDQP(tasks) ==
    /\ pc = "call"
    /\ ret' = [ op |-> "calculateDQP", arg |-> tasks, value |-> calculateDQP(tasks) ]
    /\ pc' = "done"
    /\ UNCHANGED <<project, month, cumulativeNet, projections, source, irr>>
    /\ UNCHANGED analysisVars
    /\ UNCHANGED storageVars

FnMaturityMultiplier(m, maturityConfig) ==
    /\ pc = "call"
    /\ ret' = [ op |-> "getMaturityMultiplier", month |-> m,
                maturityConfig |-> maturityConfig,
                value |-> getMaturityMultiplier(m, maturityConfig) ]
    /\ pc' = "done"
    /\ UNCHANGED <<project, month, cumulativeNet, projections, source, irr>>
    /\ UNCHANGED analysisVars
    /\ UNCHANGED storageVars

\* calculateFullResults(p), the whole call
FnFullResults(p) ==
    /\ pc = "call"
    /\ project' = p
    /\ projections' = calculateMonthlyProjections(p)
    /\ ret' = [ op |-> "calculateFullResults", value |-> calculateFullResults(p) ]
    /\ pc' = "done"
    /\ UNCHANGED <<month, cumulativeNet, source, irr>>
    /\ UNCHANGED analysisVars
    /\ UNCHANGED storageVars

NextFn ==
    \/ \E throughput \in ThroughputOptions : FnTA(throughput)
    \/ \E latency \in LatencyOptions : FnLV(latency)
    \/ \E optionality \in OptionalityOptions : FnOLV(optionality)
    \/ \E n \in 0..2 : \E tasks \in [1..n -> TaskOptions] : FnDQP(tasks)
    \/ \E m \in 1..(3 * MaxStage + MaxDuration) :
         \E pilot \in 0..MaxStage, proven \in 0..MaxStage, scaled \in 0..MaxStage,
            learningRate \in FnLearningRates :
           FnMaturityMultiplier(m, [ pilot |-> pilot, proven |-> proven,
                                     scaled |-> scaled, learningRate |-> learningRate ])
    \/ \E v \in ValueOptions :
         \E t \in RiskScalars, a \in RiskScalars, r \in RiskScalars, w \in RiskScalars :
           FnFullResults([ FnProject(v) EXCEPT !.risks = Risks(t, a, r, w) ])

SpecFn == InitFn /\ [][NextFn]_vars

---------------------------------------------------------------------------
(* Objects.  The analyses copy the caller's project and write into the     *)
(* copy, so the project is held as objects in a heap: the root object      *)
(* holds its risks object by reference, because the analyses assign into   *)
(* it in place (risks[key] = ...).  The other nested objects (tasks,       *)
(* costs, configs) are only ever replaced whole by a fresh object, so the  *)
(* root holds them by value.                                               *)

\* the references of the caller's project and of variedProject
ProjectRef == 1

RisksRef == ProjectRef + 1

VariedRef == RisksRef + 1

VariedRisksRef == VariedRef + 1

\* the caller's project p as objects
heapOf(p) ==
    [ a \in {ProjectRef, RisksRef} |->
        IF a = ProjectRef THEN [p EXCEPT !.risks = RisksRef] ELSE p.risks ]

\* the project value reachable from ref
deref(h, ref) == [ h[ref] EXCEPT !.risks = h[h[ref].risks] ]

\* mutant: variedProject is a one-level copy { ...project } that shares the
\* nested objects with the caller's project
shallowCopy(h, ref) ==
    [ a \in DOMAIN h \cup {VariedRef} |-> IF a = VariedRef THEN h[ref] ELSE h[a] ]

\* JSON.parse(JSON.stringify(project)): a new root and a new risks object
\* holding the same (finite) numbers, booleans and strings
deepCopy(h, ref) ==
    [ a \in DOMAIN h \cup {VariedRef, VariedRisksRef} |->
        IF a = VariedRef THEN [ h[ref] EXCEPT !.risks = VariedRisksRef ]
        ELSE IF a = VariedRisksRef THEN h[h[ref].risks]
        ELSE h[a] ]

---------------------------------------------------------------------------
(* runMonteCarloSimulation *)

\* a + Math.random() * width, for the value u in [0, 1) of Math.random()
uniformFactor(a, width, u) == a + FxMul(u, width)

variedAccuracy(accuracy, u) ==
    Min(Scale, Max(Scale \div 2,
                   FxMul(accuracy, uniformFactor((9 * Scale) \div 10, Scale \div 5, u))))

\* mutant: the perturbed risk is not clamped
variedRiskUnclamped(risk, u) ==
    FxMul(risk, uniformFactor((7 * Scale) \div 10, (6 * Scale) \div 10, u))

variedRisk(risk, u) ==
    Min(Scale, Max(0, FxMul(risk, uniformFactor((7 * Scale) \div 10,
                                                (6 * Scale) \div 10, u))))

\* the loop body up to the call of calculateFullResults (lines 303-321):
\* the heap after variedProject has been built and perturbed with the
\* random values of draw
monteCarloVary(h, draw) ==
    LET copied == deepCopy(h, ProjectRef)
        assigned ==
            [ copied EXCEPT
                ![VariedRef].tasks =
                    [ k \in 1..Len(@) |->
                        [ @[k] EXCEPT !.accuracy = variedAccuracy(@, draw.accuracy[k]) ] ],
                ![VariedRef].costs =
                    [ @ EXCEPT
                        !.initialDevelopment =
                            FxMul(@, uniformFactor((8 * Scale) \div 10, (4 * Scale) \div 10,
                                                   draw.initialDevelopment)),
                        !.platformMonthly =
                            FxMul(@, uniformFactor((8 * Scale) \div 10, (4 * Scale) \div 10,
                                                   draw.platformMonthly)) ] ]
    IN  [ assigned EXCEPT
            ![assigned[VariedRef].risks] =
                [ technical |-> variedRisk(@.technical, draw.risks.technical),
                  adoption |-> variedRisk(@.adoption, draw.risks.adoption),
                  regulatory |-> variedRisk(@.regulatory, draw.risks.regulatory),
                  vendor |-> variedRisk(@.vendor, draw.risks.vendor) ] ]

\* the { roi, npv, payback } pushed for one result of calculateFullResults
resultPoint(result) ==
    [ roi |-> result.roi, npv |-> result.npv, payback |-> result.payback ]

\* a payback as the number the division of line 217 yields
paybackNumber(pb) ==
    (pb.num \div pb.den) * Scale + ((pb.num % pb.den) * Scale) \div pb.den

\* Array.prototype.sort((a, b) => a - b) on finite numbers
RECURSIVE insertAscending(_, _)
insertAscending(s, x) ==
    IF s = << >> THEN << x >>
    ELSE IF x - s[Len(s)] >= 0 THEN Append(s, x)
    ELSE Append(insertAscending(SubSeq(s, 1, Len(s) - 1), x), s[Len(s)])

\* mutant: the sample is left in iteration order
sortNone(s) == s

RECURSIVE sortAscending(_)
sortAscending(s) ==
    IF s = << >> THEN << >>
    ELSE insertAscending(sortAscending(SubSeq(s, 1, Len(s) - 1)), s[Len(s)])

\* mutant: null paybacks are kept in the sample
allPaybacks(res) == [ k \in 1..Len(res) |-> res[k].payback ]

\* results.map(r => r.payback).filter(p => p !== null)
nonNullPaybacks(res) ==
    SelectSeq([ k \in 1..Len(res) |-> res[k].payback ], LAMBDA pb : ~pb.isNull)

\* the 0-based index read by getPercentile
percentileIndex(n, p) == (n * p) \div 100

\* arr[Math.floor(arr.length * p / 100)] || 0
getPercentile(arr, p) ==
    LET index == percentileIndex(Len(arr), p)
    IN  IF index < Len(arr) /\ arr[index + 1] # 0 THEN arr[index + 1] ELSE 0

\* arr.reduce((a, b) => a + b, 0) / arr.length; 0 / 0 is NaN
meanOf(arr) == IF Len(arr) = 0 THEN NaN ELSE SumSeq(arr) \div Len(arr)

\* lines 331-358: the sorted samples and the returned statistics
monteCarloSummary(res) ==
    LET sortedROI == sortAscending([ k \in 1..Len(res) |-> res[k].roi ])
        sortedNPV == sortAscending([ k \in 1..Len(res) |-> res[k].npv ])
        kept == nonNullPaybacks(res)
        sortedPayback == sortAscending([ k \in 1..Len(kept) |-> paybackNumber(kept[k]) ])
    IN  [ sortedROI |-> sortedROI,
          sortedNPV |-> sortedNPV,
          sortedPayback |-> sortedPayback,
          roi |-> [ p10 |-> getPercentile(sortedROI, 10),
                    p50 |-> getPercentile(sortedROI, 50),
                    p90 |-> getPercentile(sortedROI, 90),
                    mean |-> meanOf(sortedROI) ],
          npv |-> [ p10 |-> getPercentile(sortedNPV, 10),
                    p50 |-> getPercentile(sortedNPV, 50),
                    p90 |-> getPercentile(sortedNPV, 90),
                    mean |-> meanOf(sortedNPV) ],
          payback |-> [ p10 |-> getPercentile(sortedPayback, 10),
                        p50 |-> getPercentile(sortedPayback, 50),
                        p90 |-> getPercentile(sortedPayback, 90),
                        mean |-> IF Len(sortedPayback) > 0
                                 THEN Number(SumSeq(sortedPayback),
                                             Len(sortedPayback) * Scale)
                                 ELSE Null ],
          distribution |-> res ]

---------------------------------------------------------------------------
(* runSensitivityAnalysis *)

\* mutant: the multiplier scales the error rate 1 - accuracy
scaledAccuracyOfErrorRate(accuracy, multiplier) ==
    Min(Scale, Scale - FxMul(Scale - accuracy, multiplier))

\* Math.min(1, task.accuracy * multiplier) (line 370)
scaledAccuracy(accuracy, multiplier) == Min(Scale, FxMul(accuracy, multiplier))

\* the switch of lines 366-392 on a fresh copy of the project: the heap
\* after variedProject has been built and scaled by multiplier
sensitivityVary(h, parameter, multiplier) ==
    LET copied == deepCopy(h, ProjectRef)
        risksAt == copied[VariedRef].risks
    IN  CASE parameter = "accuracy" ->
               [ copied EXCEPT ![VariedRef].tasks =
                   [ k \in 1..Len(@) |->
                       [ @[k] EXCEPT !.accuracy = scaledAccuracy(@, multiplier) ] ] ]
          [] parameter = "hourlyRate" ->
               [ copied EXCEPT ![VariedRef].tasks =
                   [ k \in 1..Len(@) |->
                       [ @[k] EXCEPT !.hourlyRate = FxMul(@, multiplier) ] ] ]
          [] parameter = "cost" ->
               [ copied EXCEPT ![VariedRef].costs =
                   [ @ EXCEPT !.initialDevelopment = FxMul(@, multiplier),
                              !.platformMonthly = FxMul(@, multiplier),
                              !.maintenanceMonthly = FxMul(@, multiplier) ] ]
          [] parameter = "risk" ->
               [ copied EXCEPT ![risksAt] =
                   [ technical |-> Min(Scale, FxMul(@.technical, multiplier)),
                     adoption |-> Min(Scale, FxMul(@.adoption, multiplier)),
                     regulatory |-> Min(Scale, FxMul(@.regulatory, multiplier)),
                     vendor |-> Min(Scale, FxMul(@.vendor, multiplier)) ] ]
          [] OTHER -> copied

\* mutant: the variations are visited in ascending order
variationAtSorted(variations, k) == sortAscending(variations)[k]

\* variations.map: the k-th call of the callback receives variations[k]
variationAt(variations, k) == variations[k]

\* the point returned by the callback (lines 395-400)
sensitivityPoint(multiplier, result) ==
    [ multiplier |-> multiplier, roi |-> result.roi, npv |-> result.npv,
      payback |-> result.payback ]

---------------------------------------------------------------------------
(* The analyses as a state machine: runMonteCarloSimulation,               *)
(* runSensitivityAnalysis and calculateFullResults called on the caller's  *)
(* project                                                                 *)

MaxTrials == 3

MaxVariations == 3

\* the values of Math.random() of one Monte Carlo iteration: one per task,
\* two for the costs, one per risk
Draw(acc1, acc2, dev, platform, t, a, r, v) ==
    [ accuracy |-> <<acc1, acc2>>, initialDevelopment |-> dev,
      platformMonthly |-> platform, risks |-> Risks(t, a, r, v) ]

\* Math.random() is in [0, 1): the lowest value, the middle, the highest
RandomLow == 0

RandomMid == Scale \div 2

RandomHigh == Scale - 1

DrawOptions ==
    { Draw(RandomLow, RandomLow, RandomLow, RandomLow,
           RandomLow, RandomLow, RandomLow, RandomLow),
      Draw(RandomMid, RandomMid, RandomMid, RandomMid,
           RandomMid, RandomMid, RandomMid, RandomMid),
      Draw(RandomHigh, RandomHigh, RandomHigh, RandomHigh,
           RandomHigh, RandomHigh, RandomHigh, RandomHigh),
      Draw(RandomHigh, RandomHigh, RandomLow, RandomLow,
           RandomLow, RandomLow, RandomLow, RandomLow),
      Draw(RandomLow, RandomLow, RandomHigh, RandomHigh,
           RandomHigh, RandomHigh, RandomHigh, RandomHigh),
      Draw(RandomLow, RandomHigh, RandomHigh, RandomLow,
           RandomHigh, RandomLow, RandomLow, RandomHigh) }

\* one month in each of the first three stages, then Optimized at 10 % a month
AnalysisMaturity ==
    [ pilot |-> 1, proven |-> 1, scaled |-> 1, learningRate |-> Scale \div 10 ]

\* a task whose accuracy is below the 0.5 the simulation clamps to
WeakTask == Task(Fx(1), Fx(5), (3 * Scale) \div 10, 0, 0, 0, 0)

\* the projects the analyses are run on: one that breaks even for some
\* draws only, one that never does, one without costs, one whose risks
\* and accuracy are outside their expected ranges, and a profitable one
\* whose only costs are those the 'cost' parameter scales
AnalysisProjects ==
    { Project([ tasks |-> <<PlainTask, QualityTask>>, throughput |-> SomeThroughput,
                latency |-> SomeLatency, optionality |-> SomeOptionality,
                risks |-> Risks(Scale \div 5, (3 * Scale) \div 10, Scale \div 10,
                                Scale \div 10) ],
              Costs(Fx(60), Fx(5), Fx(3), Fx(20), Scale \div 100, Fx(100), Fx(1),
                    Scale \div 2),
              MaxDuration, AnalysisMaturity, Scale \div 10),
      Project([ tasks |-> << >>, throughput |-> NoThroughput, latency |-> NoLatency,
                optionality |-> NoOptionality, risks |-> Risks(0, 0, 0, 0) ],
              Costs(Fx(10), 0, 0, Fx(2), 0, 0, 0, 0),
              MaxDuration, AnalysisMaturity, Scale \div 10),
      Project([ tasks |-> <<PlainTask>>, throughput |-> NoThroughput,
                latency |-> NoLatency, optionality |-> NoOptionality,
                risks |-> Risks(Scale \div 2, Scale \div 2, Scale \div 2, Scale \div 2) ],
              Costs(0, 0, 0, 0, 0, 0, 0, 0),
              MaxDuration, AnalysisMaturity, Scale \div 5),
      Project([ tasks |-> <<WeakTask, PlainTask>>, throughput |-> NoThroughput,
                latency |-> SomeLatency, optionality |-> NoOptionality,
                risks |-> Risks(2 * Scale, -(Scale \div 2), 2 * Scale, 2 * Scale) ],
              Costs(Fx(10), 0, 0, Fx(2), 0, 0, Fx(1), 0),
              MaxDuration, AnalysisMaturity, Scale \div 10),
      Project([ tasks |-> <<PlainTask>>, throughput |-> NoThroughput,
                latency |-> NoLatency, optionality |-> NoOptionality,
                risks |-> Risks(Scale \div 10, Scale \div 10, 0, 0) ],
              Costs(Fx(4), 0, 0, Fx(1), 0, 0, Fx(1), 0),
              MaxDuration, AnalysisMaturity, Scale \div 10) }

\* the multipliers a variations list is made of
VariationValues == { 0, (7 * Scale) \div 10, (13 * Scale) \div 10 }

\* the parameter names of the switch, and one it does not know
Parameters == { "accuracy", "hourlyRate", "cost", "risk", "duration" }

NoDraw == [ accuracy |-> << >> ]

InitAnalysis ==
    /\ project \in AnalysisProjects
    /\ month = 0
    /\ cumulativeNet = 0
    /\ projections = << >>
    /\ source = "engine"
    /\ pc = "analysis"
    /\ ret = NoRet
    /\ irr = NoIrr
    /\ heap = heapOf(project)
    /\ results = << >>
    /\ NoStorage
    /\ \/ \E iterations \in 0..MaxTrials :
            run = [ op |-> "runMonteCarloSimulation", iterations |-> iterations,
                    i |-> 0, draw |-> NoDraw ]
       \/ \E parameter \in Parameters, n \in 0..MaxVariations :
            \E variations \in [1..n -> VariationValues] :
              run = [ op |-> "runSensitivityAnalysis", parameter |-> parameter,
                      variations |-> variations, k |-> 1 ]
       \/ run = [ op |-> "calculateFullResults" ]

\* the loop condition of line 301
monteCarloGuard(i, iterations) == i < iterations

\* one pass of the for loop of lines 301-329
MonteCarloIterate(draw) ==
    /\ pc = "analysis"
    /\ run.op = "runMonteCarloSimulation"
    /\ monteCarloGuard(run.i, run.iterations)
    /\ LET varied == monteCarloVary(heap, draw)
           result == calculateFullResults(deref(varied, VariedRef))
       IN  /\ heap' = varied
           /\ results' = Append(results, resultPoint(result))
    /\ run' = [ run EXCEPT !.i = run.i + 1, !.draw = draw ]
    /\ UNCHANGED <<project, month, cumulativeNet, projections, source, pc, ret, irr>>
    /\ UNCHANGED storageVars

\* lines 331-358, after the loop
MonteCarloReturn ==
    /\ pc = "analysis"
    /\ run.op = "runMonteCarloSimulation"
    /\ ~monteCarloGuard(run.i, run.iterations)
    /\ ret' = [ op |-> "runMonteCarloSimulation", value |-> monteCarloSummary(results) ]
    /\ pc' = "done"
    /\ UNCHANGED <<project, month, cumulativeNet, projections, source, irr>>
    /\ UNCHANGED analysisVars
    /\ UNCHANGED storageVars

\* one call of the callback of variations.map (lines 363-401)
SensitivityMap ==
    /\ pc = "analysis"
    /\ run.op = "runSensitivityAnalysis"
    /\ run.k <= Len(run.variations)
    /\ LET multiplier == variationAt(run.variations, run.k)
           varied == sensitivityVary(heap, run.parameter, multiplier)
           result == calculateFullResults(deref(varied, VariedRef))
       IN  /\ heap' = varied
           /\ results' = Append(results, sensitivityPoint(multiplier, result))
    /\ run' = [ run EXCEPT !.k = run.k + 1 ]
    /\ UNCHANGED <<project, month, cumulativeNet, projections, source, pc, ret, irr>>
    /\ UNCHANGED storageVars

\* variations.map returns the array of the points
SensitivityReturn ==
    /\ pc = "analysis"
    /\ run.op = "runSensitivityAnalysis"
    /\ run.k > Len(run.variations)
    /\ ret' = [ op |-> "runSensitivityAnalysis", value |-> results ]
    /\ pc' = "done"
    /\ UNCHANGED <<project, month, cumulativeNet, projections, source, irr>>
    /\ UNCHANGED analysisVars
    /\ UNCHANGED storageVars

\* calculateFullResults(project) on the caller's project
AnalysisFullResults ==
    /\ pc = "analysis"
    /\ run.op = "calculateFullResults"
    /\ projections' = calculateMonthlyProjections(deref(heap, ProjectRef))
    /\ ret' = [ op |-> "calculateFullResults",
                value |-> calculateFullResults(deref(heap, ProjectRef)) ]
    /\ pc' = "done"
    /\ UNCHANGED <<project, month, cumulativeNet, source, irr>>
    /\ UNCHANGED analysisVars
    /\ UNCHANGED storageVars

NextAnalysis ==
    \/ \E draw \in DrawOptions : MonteCarloIterate(draw)
    \/ MonteCarloReturn
    \/ SensitivityMap
    \/ SensitivityReturn
    \/ AnalysisFullResults

SpecAnalysis == InitAnalysis /\ [][NextAnalysis]_vars

---------------------------------------------------------------------------
(* Properties *)

\* the table in `projections` is one calculateMonthlyProjections returned
EngineTable == source = "engine" /\ pc \in {"table", "done"}

OneTimeCost ==
    project.costs.initialDevelopment + project.costs.trainingInitial
      + project.costs.changeManagement

RecurringCost ==
    project.costs.platformMonthly
      + FxMul(project.costs.apiCostPerCall, project.costs.estimatedCallsPerMonth)
      + project.costs.maintenanceMonthly
      + project.costs.trainingOngoing

NetThrough(m) == SumSeq([k \in 1..m |-> projections[k].netValue])

RiskAdjustedThrough(m) == SumSeq([k \in 1..m |-> projections[k].riskAdjustedValue])

\* C1: a returned table has exactly `duration` rows and row i (1-based) holds
\* month i, so months 1..duration appear once each in ascending order; a
\* duration of 0 gives the empty table.
C1_RowsAreMonths ==
    EngineTable =>
        /\ Len(projections) = project.duration
        /\ \A i \in 1..Len(projections) : projections[i].month = i

C1_Witness ==
    /\ EngineTable
    /\ project.duration >= 3
    /\ Len(projections) = project.duration

\* C2: in every row the stage name and the multiplier come from the same
\* band: (Pilot, 0.3) iff m <= pilot; (Proven, 0.7) iff pilot < m <= pilot +
\* proven; (Scaled, 1.0) iff pilot + proven < m <= pilot + proven + scaled;
\* Optimized with the learning-rate multiplier iff m is beyond that.
C2_StageMatchesMultiplier ==
    source = "engine" =>
        \A i \in 1..Len(projections) :
            LET row == projections[i]
                m == row.month
                pilotEnd == project.maturity.pilot
                provenEnd == pilotEnd + project.maturity.proven
                scaledEnd == provenEnd + project.maturity.scaled
                learned == Min(FxMul((13 * Scale) \div 10,
                                     FxPow(Scale + project.maturity.learningRate,
                                           m - scaledEnd)),
                               (18 * Scale) \div 10)
            IN  /\ (row.stage = "Pilot" /\ row.multiplier = (3 * Scale) \div 10)
                      <=> m <= pilotEnd
                /\ (row.stage = "Proven" /\ row.multiplier = (7 * Scale) \div 10)
                      <=> (pilotEnd < m /\ m <= provenEnd)
                /\ (row.stage = "Scaled" /\ row.multiplier = Scale)
                      <=> (provenEnd < m /\ m <= scaledEnd)
                /\ (row.stage = "Optimized" /\ row.multiplier = learned)
                      <=> m > scaledEnd

C2_Witness ==
    /\ EngineTable
    /\ \A s \in {"Pilot", "Proven", "Scaled", "Optimized"} :
         \E i \in 1..Len(projections) : projections[i].stage = s

\* C3: the cost of month 1 is the one-time cost plus the recurring monthly
\* cost, and the cost of every later month is the recurring cost alone.
C3_OneTimeCostInMonthOne ==
    source = "engine" =>
        \A i \in 1..Len(projections) :
            projections[i].cost =
                IF projections[i].month = 1 THEN OneTimeCost + RecurringCost
                ELSE RecurringCost

C3_Witness ==
    /\ EngineTable
    /\ Len(projections) >= 2
    /\ OneTimeCost > 0
    /\ RecurringCost > 0
    /\ projections[1].cost > projections[2].cost

PaybackReturned ==
    pc = "done" /\ ret.op \in {"calculatePaybackPeriod", "calculateFullResults"}

ReturnedPayback ==
    IF ret.op = "calculateFullResults" THEN ret.value.payback ELSE ret.value

BreakEvenRows == { i \in 1..Len(projections) : projections[i].cumulativeNet >= 0 }

\* the first row whose cumulativeNet is >= 0
FirstBreakEven == CHOOSE i \in BreakEvenRows : \A j \in BreakEvenRows : i <= j

\* C5: the payback period is null exactly when no row of the table has
\* cumulativeNet >= 0 (the empty table included).
C5_PaybackNullIffNoBreakEven ==
    PaybackReturned => (ReturnedPayback.isNull <=> BreakEvenRows = {})

C5_Witness ==
    /\ PaybackReturned
    /\ ReturnedPayback.isNull
    /\ Len(projections) >= 2

\* C6: with i the first row whose cumulativeNet is >= 0, the payback is that
\* row's month if i is the first row, and otherwise
\* month[i-1] + (-cum[i-1]) / (cum[i] - cum[i-1]), which is above month[i-1],
\* at most month[i-1] + 1, and equal to month[i] exactly when cum[i] = 0;
\* rows after i do not matter; for a table of the engine the payback lies in
\* 1..duration.
C6_PaybackInterpolates ==
    (PaybackReturned /\ BreakEvenRows # {}) =>
        LET i == FirstBreakEven
            payback == ReturnedPayback
        IN  /\ ~payback.isNull
            /\ payback.den > 0
            /\ i = 1 => payback = Number(projections[1].month, 1)
            /\ i > 1 =>
                 LET prev == projections[i - 1]
                     curr == projections[i]
                     valueChange == curr.cumulativeNet - prev.cumulativeNet
                 IN  /\ payback = Number(prev.month * valueChange + (-prev.cumulativeNet),
                                         valueChange)
                     /\ payback.num > prev.month * payback.den
                     /\ payback.num <= (prev.month + 1) * payback.den
                     /\ (payback.num = curr.month * payback.den)
                          <=> curr.cumulativeNet = 0
            /\ payback = calculatePaybackPeriod(SubSeq(projections, 1, i))
            /\ source = "engine" =>
                 /\ 1 * payback.den <= payback.num
                 /\ payback.num <= project.duration * payback.den

C6_Witness ==
    /\ PaybackReturned
    /\ BreakEvenRows # {}
    /\ FirstBreakEven > 1
    /\ FirstBreakEven < Len(projections)
    /\ projections[FirstBreakEven].cumulativeNet > 0
    /\ ReturnedPayback.num > projections[FirstBreakEven - 1].month * ReturnedPayback.den
    /\ ReturnedPayback.num < projections[FirstBreakEven].month * ReturnedPayback.den

\* C7: at discount rate 0 calculateNPV is the plain sum of the rows' net
\* values, and at every rate the result is the same whatever the
\* cumulativeNet column holds.
C7_NPVAtZeroIsSum ==
    (pc = "done" /\ ret.op = "calculateNPV") =>
        /\ ret.discountRate = 0 => ret.value = NetThrough(Len(projections))
        /\ ret.value =
             calculateNPV([i \in 1..Len(projections) |->
                              [projections[i] EXCEPT !.cumulativeNet = 0]],
                          ret.discountRate)

C7_Witness ==
    /\ pc = "done"
    /\ ret.op = "calculateNPV"
    /\ ret.discountRate = 0
    /\ Len(projections) >= 2
    /\ ret.value # 0
    /\ \E i \in 1..Len(projections) :
         /\ projections[i].netValue # 0
         /\ projections[i].cumulativeNet # 0
         /\ projections[i].cumulativeNet # projections[i].netValue

\* C8: for a project whose discountRate is 0 the npv reported by
\* calculateFullResults is the undiscounted sum of the monthly net values,
\* totalRiskAdjusted - totalCost.
C8_FullResultsNPVAtRateZero ==
    (pc = "done" /\ ret.op = "calculateFullResults" /\ project.discountRate = 0) =>
        ret.value.npv = ret.value.totalRiskAdjusted - ret.value.totalCost

AllNonNegative == \A t \in 1..Len(projections) : projections[t].netValue >= 0

AllNonPositive == \A t \in 1..Len(projections) : projections[t].netValue <= 0

\* C9: when all net values are >= 0 or all are <= 0 (all-zero and empty
\* tables included) calculateIRR returns null by its early return and never
\* enters the Newton loop; a number is returned only for a table with a
\* strictly positive and a strictly negative net value.
C9_IRRNullOnSameSign ==
    /\ (AllNonNegative \/ AllNonPositive) =>
         /\ pc # "newton"
         /\ irr.i = 0
         /\ pc = "done" => (ret.value.isNull /\ ret.via = "sameSign")
    /\ (pc = "done" /\ ~ret.value.isNull) =>
         /\ \E t \in 1..Len(projections) : projections[t].netValue > 0
         /\ \E t \in 1..Len(projections) : projections[t].netValue < 0

C9_Witness ==
    /\ pc = "done"
    /\ ret.via = "sameSign"
    /\ ret.value.isNull
    /\ \E t \in 1..Len(projections) : projections[t].netValue = 0
    /\ \E t \in 1..Len(projections) : projections[t].netValue > 0

\* C10: the Newton loop makes at most maxIterations updates of the rate,
\* and when the loop runs out of iterations (no pass converged, none hit
\* the flat-derivative guard) the result is null, not the last estimate.
C10_IRRNullOnExhaustion ==
    /\ irr.i <= irr.maxIterations
    /\ (pc = "done" /\ ret.via = "exhausted") =>
         /\ ret.value.isNull
         /\ irr.i = irr.maxIterations

C10_Witness ==
    /\ pc = "done"
    /\ ret.via = "exhausted"
    /\ irr.maxIterations >= 2
    /\ irr.i = irr.maxIterations
    /\ irr.rate # initialRate

---------------------------------------------------------------------------
(* Composite risk, value dimensions, maturity multiplier *)

FullResultsReturned == pc = "done" /\ ret.op = "calculateFullResults"

InUnitInterval(x) == 0 <= x /\ x <= Scale

\* C11: the composite risk reported by calculateFullResults is exactly the
\* weighted sum 0.35 t + 0.35 a + 0.15 r + 0.15 v of the project's risks,
\* unclamped, and riskAdjustment is 1 minus it; with four equal risks r it
\* is r (so 0 for all-zero, 1 for all-one), and with every risk in [0, 1]
\* both reported numbers lie in [0, 1].
C11_CompositeRiskIsWeightedSum ==
    FullResultsReturned =>
        LET r == project.risks
            v == ret.value
        IN  /\ 100 * v.compositeRisk
                 = 35 * r.technical + 35 * r.adoption + 15 * r.regulatory + 15 * r.vendor
            /\ v.riskAdjustment = Scale - v.compositeRisk
            /\ (r.technical = r.adoption /\ r.adoption = r.regulatory
                   /\ r.regulatory = r.vendor) => v.compositeRisk = r.technical
            /\ (InUnitInterval(r.technical) /\ InUnitInterval(r.adoption)
                   /\ InUnitInterval(r.regulatory) /\ InUnitInterval(r.vendor))
                 => InUnitInterval(v.compositeRisk) /\ InUnitInterval(v.riskAdjustment)

\* four equal risks of 1 are reported as composite risk 1, risk adjustment 0
C11_Witness ==
    /\ FullResultsReturned
    /\ project.risks = Risks(Scale, Scale, Scale, Scale)
    /\ ret.value.compositeRisk = Scale
    /\ ret.value.riskAdjustment = 0

\* a task whose AI error rate 1 - accuracy is at least its baseline error rate
Underperforms(task) == Scale - task.accuracy >= task.baselineErrorRate

\* a task that has both decision-quality fields and beats its baseline
CountsForDQP(task) ==
    task.errorCost # 0 /\ task.baselineErrorRate # 0 /\ ~Underperforms(task)

\* C12: calculateTA, calculateLV and calculateOLV return 0 for an absent or
\* disabled config whatever its other fields hold, calculateTA returns 0 when
\* newCapacity <= oldCapacity, calculateLV returns 0 when no time is saved,
\* calculateDQP adds nothing for a task without errorCost or
\* baselineErrorRate or with an AI error rate at or above the baseline, and
\* no dimension is negative for non-negative inputs.
C12_DimensionsZeroWhenNotApplicable ==
    pc = "done" =>
        /\ ret.op = "calculateTA" =>
              /\ (~ret.arg.present \/ ~ret.arg.enabled) => ret.value = 0
              /\ ret.arg.newCapacity <= ret.arg.oldCapacity => ret.value = 0
              /\ ret.value >= 0
        /\ ret.op = "calculateLV" =>
              /\ (~ret.arg.present \/ ~ret.arg.enabled) => ret.value = 0
              /\ ret.arg.oldTimeHours - ret.arg.newTimeHours <= 0 => ret.value = 0
              /\ ret.value >= 0
        /\ ret.op = "calculateOLV" =>
              /\ (~ret.arg.present \/ ~ret.arg.enabled) => ret.value = 0
              /\ ret.value >= 0
        /\ ret.op = "calculateDQP" =>
              /\ ret.value = calculateDQP(SelectSeq(ret.arg, CountsForDQP))
              /\ (\A k \in 1..Len(ret.arg) : ~CountsForDQP(ret.arg[k])) => ret.value = 0
              /\ ret.value >= 0

\* calculateDQP on two tasks with both fields set: the first underperforms
\* its baseline and adds nothing, the second adds a positive premium
C12_Witness ==
    /\ pc = "done"
    /\ ret.op = "calculateDQP"
    /\ Len(ret.arg) = 2
    /\ ret.arg[1].errorCost # 0 /\ ret.arg[1].baselineErrorRate # 0
    /\ ret.arg[1].volumePerWeek # 0
    /\ Scale - ret.arg[1].accuracy > ret.arg[1].baselineErrorRate
    /\ CountsForDQP(ret.arg[2])
    /\ ret.value > 0

MultiplierReturned == pc = "done" /\ ret.op = "getMaturityMultiplier"

\* the Scaled boundary pilot + proven + scaled of a maturity configuration
ScaledEnd(maturityConfig) ==
    maturityConfig.pilot + maturityConfig.proven + maturityConfig.scaled

\* C13: beyond the Scaled boundary the multiplier never exceeds 1.80, never
\* decreases from month m to month m + 1, and stays at 1.80 once it has
\* reached it, for every maturity configuration.
C13_OptimizedMultiplierNonDecreasing ==
    (MultiplierReturned /\ ret.month > ScaledEnd(ret.maturityConfig)) =>
        LET next == getMaturityMultiplier(ret.month + 1, ret.maturityConfig)
        IN  /\ ret.value <= (18 * Scale) \div 10
            /\ next >= ret.value
            /\ ret.value = (18 * Scale) \div 10 => next = (18 * Scale) \div 10

\* C14: for every project with duration >= 1 and every maturity
\* configuration, the projection row of month 1 has stage "Pilot" and
\* multiplier 0.3.
C14_FirstMonthIsPilot ==
    (EngineTable /\ project.duration >= 1) =>
        /\ projections[1].month = 1
        /\ projections[1].stage = "Pilot"
        /\ projections[1].multiplier = (3 * Scale) \div 10

\* C15: with S the Scaled boundary, month S + k (k >= 1) has multiplier
\* min(1.30 * (1 + learningRate)^(k - 1), 1.80); the first Optimized month
\* S + 1 has multiplier exactly 1.30.
C15_FirstOptimizedMonthIs130 ==
    (MultiplierReturned /\ ret.month > ScaledEnd(ret.maturityConfig)) =>
        LET k == ret.month - ScaledEnd(ret.maturityConfig)
            growth == FxPow(Scale + ret.maturityConfig.learningRate, k - 1)
        IN  /\ ret.value = Min(FxMul((13 * Scale) \div 10, growth), (18 * Scale) \div 10)
            /\ k = 1 => ret.value = (13 * Scale) \div 10

---------------------------------------------------------------------------
(* Monte Carlo simulation and sensitivity analysis *)

MonteCarloReturned == pc = "done" /\ ret.op = "runMonteCarloSimulation"

IsAscending(s) == \A k \in 1..(Len(s) - 1) : s[k] <= s[k + 1]

Occurrences(s, x) == Cardinality({ k \in 1..Len(s) : s[k] = x })

\* s and t hold the same elements, each as often
SameElements(s, t) ==
    /\ Len(s) = Len(t)
    /\ \A k \in 1..Len(s) : Occurrences(s, s[k]) = Occurrences(t, s[k])

RecordedROI == [ k \in 1..Len(results) |-> results[k].roi ]

RecordedNPV == [ k \in 1..Len(results) |-> results[k].npv ]

\* C16: for n >= 1 iterations the simulation returns only after all n
\* results have been recorded; the ROI and NPV samples it sorts are those n
\* results in ascending order, each percentile p is the element at index
\* floor(n * p / 100), which is within 0..n-1, and p10 <= p50 <= p90 holds
\* for ROI and for NPV.
C16_PercentilesOrdered ==
    (MonteCarloReturned /\ run.iterations >= 1) =>
        LET n == run.iterations
            v == ret.value
        IN  /\ run.i = n /\ Len(results) = n /\ v.distribution = results
            /\ IsAscending(v.sortedROI) /\ SameElements(v.sortedROI, RecordedROI)
            /\ IsAscending(v.sortedNPV) /\ SameElements(v.sortedNPV, RecordedNPV)
            /\ \A p \in {10, 50, 90} : percentileIndex(n, p) \in 0..(n - 1)
            /\ v.roi.p10 = v.sortedROI[percentileIndex(n, 10) + 1]
            /\ v.roi.p50 = v.sortedROI[percentileIndex(n, 50) + 1]
            /\ v.roi.p90 = v.sortedROI[percentileIndex(n, 90) + 1]
            /\ v.npv.p10 = v.sortedNPV[percentileIndex(n, 10) + 1]
            /\ v.npv.p50 = v.sortedNPV[percentileIndex(n, 50) + 1]
            /\ v.npv.p90 = v.sortedNPV[percentileIndex(n, 90) + 1]
            /\ v.roi.p10 <= v.roi.p50 /\ v.roi.p50 <= v.roi.p90
            /\ v.npv.p10 <= v.npv.p50 /\ v.npv.p50 <= v.npv.p90

\* three iterations recorded in descending order of ROI, reported with
\* three distinct ROI percentiles
C16_Witness ==
    /\ MonteCarloReturned
    /\ run.iterations = 3
    /\ results[1].roi > results[2].roi /\ results[2].roi > results[3].roi
    /\ ret.value.roi.p10 < ret.value.roi.p50
    /\ ret.value.roi.p50 < ret.value.roi.p90

\* the recorded results whose payback is not null
FinitePaybackResults == SelectSeq(results, LAMBDA r : ~r.payback.isNull)

FinitePaybackNumbers ==
    [ k \in 1..Len(FinitePaybackResults) |->
        paybackNumber(FinitePaybackResults[k].payback) ]

\* C17: the payback sample the simulation sorts holds exactly the paybacks
\* of the iterations whose payback is not null, and the mean is taken over
\* them, while the returned distribution keeps every iteration, null
\* paybacks included; when every payback is null the payback mean is null
\* and p10, p50 and p90 are each the number 0.
C17_PaybackStatisticsSkipNull ==
    MonteCarloReturned =>
        LET v == ret.value
        IN  /\ v.distribution = results
            /\ IsAscending(v.sortedPayback)
            /\ SameElements(v.sortedPayback, FinitePaybackNumbers)
            /\ Len(FinitePaybackResults) > 0 =>
                  v.payback.mean = Number(SumSeq(FinitePaybackNumbers),
                                          Len(FinitePaybackResults) * Scale)
            /\ Len(FinitePaybackResults) = 0 =>
                  /\ v.payback.mean = Null
                  /\ v.payback.p10 = 0 /\ v.payback.p50 = 0 /\ v.payback.p90 = 0

\* a simulation of at least two iterations, every one with a null payback
C17_Witness ==
    /\ MonteCarloReturned
    /\ run.iterations >= 2
    /\ Len(results) = run.iterations
    /\ \A k \in 1..Len(results) : results[k].payback.isNull
    /\ ret.value.payback.mean = Null
    /\ ret.value.payback.p50 = 0

\* a Monte Carlo iteration has run: variedProject is the project it passed
\* to calculateFullResults
MonteCarloIterated == run.op = "runMonteCarloSimulation" /\ run.i >= 1

variedProject == deref(heap, VariedRef)

\* C18: in every Monte Carlo iteration each task accuracy passed to the
\* pipeline lies in [0.5, 1.0] and each risk scalar in [0, 1], so the risk
\* adjustment used lies in [0, 1], whatever the base project and the draws.
C18_PerturbedInputsClamped ==
    MonteCarloIterated =>
        /\ \A k \in 1..Len(variedProject.tasks) :
              /\ variedProject.tasks[k].accuracy >= Scale \div 2
              /\ variedProject.tasks[k].accuracy <= Scale
        /\ InUnitInterval(variedProject.risks.technical)
        /\ InUnitInterval(variedProject.risks.adoption)
        /\ InUnitInterval(variedProject.risks.regulatory)
        /\ InUnitInterval(variedProject.risks.vendor)
        /\ InUnitInterval(riskAdjustment(variedProject))

\* a base project with a risk above 1, a risk below 0 and an accuracy below
\* 0.5, all three clamped in the iteration
C18_Witness ==
    /\ MonteCarloIterated
    /\ project.risks.technical > Scale /\ variedProject.risks.technical = Scale
    /\ project.risks.adoption < 0 /\ variedProject.risks.adoption = 0
    /\ project.tasks[1].accuracy < Scale \div 2
    /\ variedProject.tasks[1].accuracy = Scale \div 2
    /\ ~InUnitInterval(riskAdjustment(project))

SensitivityMapped == run.op = "runSensitivityAnalysis" /\ run.k >= 2

\* C19: runMonteCarloSimulation, runSensitivityAnalysis and
\* calculateFullResults leave every field of the caller's project, nested
\* tasks, costs and risks included, at the value it had before the call
\* (the variable project), and each iteration or variation works on the
\* caller's original values: variedProject is the perturbation of the
\* original project by the current draw or multiplier alone.
C19_CallerProjectNotMutated ==
    (run.op # "none") =>
        /\ heap[ProjectRef] = [ project EXCEPT !.risks = RisksRef ]
        /\ heap[RisksRef] = project.risks
        /\ deref(heap, ProjectRef) = project
        /\ MonteCarloIterated =>
              /\ variedProject
                   = deref(monteCarloVary(heapOf(project), run.draw), VariedRef)
              /\ results[Len(results)]
                   = resultPoint(calculateFullResults(
                         deref(monteCarloVary(heapOf(project), run.draw), VariedRef)))
        /\ SensitivityMapped =>
              /\ variedProject
                   = deref(sensitivityVary(heapOf(project), run.parameter,
                                           run.variations[run.k - 1]), VariedRef)
              /\ results[Len(results)].roi
                   = calculateFullResults(
                         deref(sensitivityVary(heapOf(project), run.parameter,
                                               run.variations[run.k - 1]), VariedRef)).roi

\* a simulation of two or more iterations has returned; its last iteration
\* changed tasks, costs and risks of variedProject, and the caller's
\* project still holds its original values
C19_Witness ==
    /\ MonteCarloReturned
    /\ run.iterations >= 2
    /\ variedProject.tasks # project.tasks
    /\ variedProject.costs # project.costs
    /\ variedProject.risks # project.risks
    /\ deref(heap, ProjectRef) = project

SensitivityReturned == ret.op = "runSensitivityAnalysis"

\* C20: runSensitivityAnalysis returns a list of the same length as
\* variations whose i-th point carries multiplier = variations[i] and the
\* results of the project varied by that multiplier, whatever the order of
\* the variations and whether or not they repeat.
C20_SensitivityKeepsInputOrder ==
    SensitivityReturned =>
        /\ Len(ret.value) = Len(run.variations)
        /\ \A i \in 1..Len(run.variations) :
              /\ ret.value[i].multiplier = run.variations[i]
              /\ ret.value[i]
                   = sensitivityPoint(run.variations[i],
                         calculateFullResults(
                             deref(sensitivityVary(heapOf(project), run.parameter,
                                                   run.variations[i]), VariedRef)))

\* an analysis has returned for a variations list that is not ascending and
\* holds the same multiplier twice
C20_Witness ==
    /\ SensitivityReturned
    /\ Len(run.variations) >= 3
    /\ run.variations[1] > run.variations[2]
    /\ run.variations[3] = run.variations[1]
    /\ ret.value[1].roi # ret.value[2].roi

\* the inputs of a project lie in the ranges the engine expects: accuracy,
\* oversightRate and the four risks in [0,1], learningRate >= 0, and every
\* other value and cost input non-negative
ValidTask(task) ==
    /\ InUnitInterval(task.accuracy) /\ InUnitInterval(task.oversightRate)
    /\ task.hoursPerWeek >= 0 /\ task.hourlyRate >= 0
    /\ task.volumePerWeek >= 0 /\ task.errorCost >= 0
    /\ InUnitInterval(task.baselineErrorRate)

ValidInputs(p) ==
    /\ \A k \in 1..Len(p.tasks) : ValidTask(p.tasks[k])
    /\ \A key \in DOMAIN p.risks : InUnitInterval(p.risks[key])
    /\ \A key \in DOMAIN p.costs : p.costs[key] >= 0
    /\ p.maturity.learningRate >= 0
    /\ calculateTA(p.throughput) >= 0
    /\ calculateLV(p.latency) >= 0
    /\ calculateOLV(p.optionality) >= 0

\* the ROI of the returned points does not decrease along the multipliers
RoiNonDecreasing ==
    \A i, j \in 1..Len(ret.value) :
        run.variations[i] <= run.variations[j] => ret.value[i].roi <= ret.value[j].roi

\* the ROI of the returned points does not increase along the multipliers
RoiNonIncreasing ==
    \A i, j \in 1..Len(ret.value) :
        run.variations[i] <= run.variations[j] => ret.value[i].roi >= ret.value[j].roi

\* C21 as stated: with parameter 'accuracy' the ROI reported by
\* runSensitivityAnalysis is non-decreasing in the multiplier, for every
\* project.
C21_AccuracyRoiNonDecreasing ==
    (SensitivityReturned /\ run.parameter = "accuracy") => RoiNonDecreasing

\* C21 amended: with parameter 'accuracy' the ROI reported by
\* runSensitivityAnalysis is non-decreasing in the multiplier for every
\* project whose inputs lie in their expected ranges.
C21_AccuracyRoiNonDecreasingOnValidInputs ==
    (SensitivityReturned /\ run.parameter = "accuracy" /\ ValidInputs(project))
        => RoiNonDecreasing

\* an accuracy analysis of a valid project has returned two points whose
\* ROI rises strictly with the multiplier
C21_Witness ==
    /\ SensitivityReturned /\ run.parameter = "accuracy" /\ ValidInputs(project)
    /\ \E i, j \in 1..Len(ret.value) :
          /\ run.variations[i] < run.variations[j]
          /\ ret.value[i].roi < ret.value[j].roi

\* C22: with parameter 'cost' and with parameter 'risk' the ROI reported by
\* runSensitivityAnalysis never increases as the multiplier increases; stated
\* here for the projects whose inputs lie in their expected ranges, where it
\* already fails.
C22_CostAndRiskRoiNonIncreasing ==
    (SensitivityReturned /\ run.parameter \in {"cost", "risk"} /\ ValidInputs(project))
        => RoiNonIncreasing

---------------------------------------------------------------------------
(* The scenario store (src/unnamed/part_002): saveScenario,                *)
(* getAllScenarios, getScenario and deleteScenario over the one            *)
(* localStorage item STORAGE_KEY.  The item is null, a text JSON.parse     *)
(* rejects, or the text JSON.stringify wrote for a list of scenarios.      *)

MaxClock == 2

\* a stored text that is not valid JSON
InvalidItem == [ state |-> "invalid", list |-> << >> ]

\* JSON.stringify(scenarios), the text localStorage.setItem stores
stringify(scenarios) == [ state |-> "json", list |-> scenarios ]

\* JSON.parse(data): the parsed value, or the SyntaxError it throws
JSONparse(data) ==
    IF data.state = "json" THEN [ threw |-> FALSE, value |-> data.list ]
    ELSE [ threw |-> TRUE, value |-> << >> ]

\* mutant: the body of getAllScenarios without its try/catch
getAllScenariosUnguarded(data) ==
    IF data.state = "null" THEN [ threw |-> FALSE, value |-> << >> ]
    ELSE JSONparse(data)

\* getAllScenarios (lines 25-33) reading the item data: what the call
\* returns, and whether an exception leaves it
getAllScenarios(data) ==
    IF data.state = "null" THEN [ threw |-> FALSE, value |-> << >> ]
    ELSE IF JSONparse(data).threw THEN [ threw |-> FALSE, value |-> << >> ]
    ELSE JSONparse(data)

\* scenarios.findIndex(s => s.id === id): the 0-based index, or -1
RECURSIVE findIndexFrom(_, _, _)
findIndexFrom(scenarios, id, k) ==
    IF k > Len(scenarios) THEN -1
    ELSE IF scenarios[k].id = id THEN k - 1
    ELSE findIndexFrom(scenarios, id, k + 1)

findIndex(scenarios, id) == findIndexFrom(scenarios, id, 1)

\* Date.now().toString() (line 7) and new Date().toISOString() (line 11)
timeString(t) == ToString(t)

\* scenario.id || Date.now().toString(): an empty id is a missing id
scenarioId(scenario, now) == IF scenario.id # "" THEN scenario.id ELSE timeString(now)

\* { ...scenario, id, savedAt } (lines 8-12)
savedScenarioOf(scenario, id, savedAt) ==
    [ id |-> id, name |-> scenario.name, savedAt |-> savedAt ]

\* mutant: the saved scenario is always pushed
saveIntoAlwaysPush(scenarios, savedScenario) == Append(scenarios, savedScenario)

\* lines 14-19: replace the entry with the same id, or push
saveInto(scenarios, savedScenario) ==
    LET existingIndex == findIndex(scenarios, savedScenario.id)
    IN  IF existingIndex >= 0
        THEN [ scenarios EXCEPT ![existingIndex + 1] = savedScenario ]
        ELSE Append(scenarios, savedScenario)

\* mutant: the filter keeps the scenario with the id
removeByIdInverted(scenarios, id) == SelectSeq(scenarios, LAMBDA s : s.id = id)

\* scenarios.filter(s => s.id !== id) (line 45)
removeById(scenarios, id) == SelectSeq(scenarios, LAMBDA s : s.id # id)

\* what Array.prototype.find returns when no element matches
undefined == [ id |-> "", name |-> "", savedAt |-> "" ]

\* scenarios.find(s => s.id === id) (line 40)
find(scenarios, id) ==
    IF findIndex(scenarios, id) >= 0 THEN scenarios[findIndex(scenarios, id) + 1]
    ELSE undefined

\* the names and the ids a caller passes: no id, or the text of a time (an
\* id an earlier save generated, or one no save has generated yet)
ScenarioNames == { "A", "B" }

ScenarioIds == { "" } \cup { timeString(t) : t \in 1..MaxClock }

InitStorage ==
    /\ project = NoProject
    /\ month = 0
    /\ cumulativeNet = 0
    /\ projections = << >>
    /\ source = "caller"
    /\ pc = "storage"
    /\ ret = NoRet
    /\ irr = NoIrr
    /\ NoAnalysis
    /\ localStorage \in { NoItem, InvalidItem }
    /\ clock = 1
    /\ savedScenarios = << >>
    /\ selectedScenarios = << >>

engineVars == <<project, month, cumulativeNet, projections, source, irr>>

\* a millisecond passes between two calls
StorageTick ==
    /\ pc = "storage"
    /\ clock < MaxClock
    /\ clock' = clock + 1
    /\ UNCHANGED <<engineVars, analysisVars, pc, ret, localStorage,
                   savedScenarios, selectedScenarios>>

\* saveScenario(scenario) (lines 5-23); elapsed is the time that passes
\* between Date.now() and new Date()
SaveScenario(scenario, elapsed) ==
    /\ pc = "storage"
    /\ clock + elapsed <= MaxClock
    /\ LET scenarios == getAllScenarios(localStorage).value
           id == scenarioId(scenario, clock)
           savedScenario == savedScenarioOf(scenario, id, timeString(clock + elapsed))
       IN  /\ localStorage' = stringify(saveInto(scenarios, savedScenario))
           /\ ret' = [ op |-> "saveScenario", scenario |-> scenario,
                       before |-> scenarios, value |-> savedScenario ]
    /\ clock' = clock + elapsed
    /\ UNCHANGED <<engineVars, analysisVars, pc, savedScenarios, selectedScenarios>>

\* getAllScenarios() (lines 25-33)
GetAllScenarios ==
    /\ pc = "storage"
    /\ ret' = [ op |-> "getAllScenarios", data |-> localStorage,
                threw |-> getAllScenarios(localStorage).threw,
                value |-> getAllScenarios(localStorage).value ]
    /\ UNCHANGED <<engineVars, analysisVars, pc, storageVars>>

\* getScenario(id) (lines 38-41)
GetScenario(id) ==
    /\ pc = "storage"
    /\ LET scenarios == getAllScenarios(localStorage).value
       IN  ret' = [ op |-> "getScenario", id |-> id, value |-> find(scenarios, id) ]
    /\ UNCHANGED <<engineVars, analysisVars, pc, storageVars>>

\* deleteScenario(id) (lines 43-47)
DeleteScenario(id) ==
    /\ pc = "storage"
    /\ LET scenarios == getAllScenarios(localStorage).value
           filtered == removeById(scenarios, id)
       IN  /\ localStorage' = stringify(filtered)
           /\ ret' = [ op |-> "deleteScenario", id |-> id, before |-> scenarios ]
    /\ UNCHANGED <<engineVars, analysisVars, pc, clock, savedScenarios, selectedScenarios>>

NextStorage ==
    \/ StorageTick
    \/ \E id \in ScenarioIds, name \in ScenarioNames, elapsed \in 0..1 :
          SaveScenario([ id |-> id, name |-> name ], elapsed)
    \/ GetAllScenarios
    \/ \E id \in ScenarioIds : GetScenario(id)
    \/ \E id \in ScenarioIds : DeleteScenario(id)

SpecStorage == InitStorage /\ [][NextStorage]_vars

\* the list of scenarios a reader of the store sees
storedScenarios == getAllScenarios(localStorage).value

SaveReturned == ret.op = "saveScenario"

\* C23: after saveScenario returns for a scenario that carries no id, the
\* stored list is the list stored before, every entry unchanged, plus
\* exactly one new entry: the scenario with a generated id and a savedAt
\* stamp.
C23_SaveWithoutIdAppends ==
    (SaveReturned /\ ret.scenario.id = "") =>
        /\ Len(storedScenarios) = Len(ret.before) + 1
        /\ \A k \in 1..Len(ret.before) : storedScenarios[k] = ret.before[k]
        /\ storedScenarios[Len(storedScenarios)] = ret.value
        /\ ret.value.id # "" /\ ret.value.savedAt # ""
        /\ ret.value.name = ret.scenario.name

\* no two stored scenarios share an id
StoredIdsDistinct ==
    \A i, j \in 1..Len(storedScenarios) :
        i # j => storedScenarios[i].id # storedScenarios[j].id

\* the positions of the list before the call that hold the id
PositionsOf(list, id) == { k \in 1..Len(list) : list[k].id = id }

\* C24: saveScenario with an id already present in the store replaces that
\* entry at the same position and leaves the list length and all other
\* entries unchanged; and in every state reached from an empty store by
\* saves and deletes no two stored scenarios share an id.
C24_SaveExistingReplacesInPlace ==
    /\ StoredIdsDistinct
    /\ (SaveReturned /\ ret.scenario.id # "" /\ PositionsOf(ret.before, ret.scenario.id) # {}) =>
          /\ Len(storedScenarios) = Len(ret.before)
          /\ \A k \in 1..Len(ret.before) :
                storedScenarios[k] = IF ret.before[k].id = ret.scenario.id
                                     THEN ret.value ELSE ret.before[k]
          /\ ret.value.id = ret.scenario.id /\ ret.value.name = ret.scenario.name

\* a save has replaced the first of two stored scenarios, changing its name
C24_Witness ==
    /\ SaveReturned
    /\ Len(ret.before) = 2
    /\ ret.before[1].id = ret.scenario.id
    /\ ret.before[1].name # ret.scenario.name
    /\ storedScenarios[1].name = ret.scenario.name
    /\ storedScenarios[2] = ret.before[2]
    /\ Len(storedScenarios) = 2

DeleteReturned == ret.op = "deleteScenario"

\* the number of entries before position k of the list that hold the id
RemovedBefore(list, id, k) == Cardinality({ j \in 1..(k - 1) : list[j].id = id })

GetAllReturned == ret.op = "getAllScenarios"

\* C26: getAllScenarios does not throw and does not write: it returns the
\* empty list when nothing is stored or the stored text is not valid JSON,
\* the stored list otherwise, and the item is the same after the call as
\* before.
C26_GetAllNeverThrowsNorWrites ==
    GetAllReturned =>
        /\ ~ret.threw
        /\ ret.data.state \in {"null", "invalid"} => ret.value = << >>
        /\ ret.data.state = "json" => ret.value = ret.data.list
        /\ localStorage = ret.data

\* getAllScenarios has returned for a stored text that is not valid JSON
C26_Witness ==
    /\ GetAllReturned
    /\ ret.data = InvalidItem
    /\ ret.value = << >>
    /\ localStorage = InvalidItem

\* the order of the maturity stages
StageRank(stage) ==
    CASE stage = "Pilot" -> 1
      [] stage = "Proven" -> 2
      [] stage = "Scaled" -> 3
      [] stage = "Optimized" -> 4

\* the rows calculateMonthlyProjections has pushed so far
EngineRows == IF source = "engine" THEN projections ELSE << >>

\* C27: along the months 1, 2, ... of one projection the maturity stage
\* never moves backward in the order Pilot < Proven < Scaled < Optimized,
\* and once a month is Optimized every later month is Optimized.
C27_StageNeverMovesBackward ==
    \A i, j \in 1..Len(EngineRows) :
        i <= j =>
            /\ StageRank(EngineRows[i].stage) <= StageRank(EngineRows[j].stage)
            /\ EngineRows[i].stage = "Optimized" => EngineRows[j].stage = "Optimized"

\* a projection with a zero-length Proven stage: Pilot, then Scaled, then
\* two Optimized months
C27_Witness ==
    /\ EngineTable
    /\ project.maturity.proven = 0
    /\ Len(projections) >= 4
    /\ projections[1].stage = "Pilot"
    /\ projections[2].stage = "Scaled"
    /\ projections[3].stage = "Optimized"
    /\ projections[4].stage = "Optimized"

\* the sum of the five components of a row's breakdown
BreakdownSum(row) ==
    row.breakdown.dla + row.breakdown.ta + row.breakdown.dqp + row.breakdown.lv
      + row.breakdown.olv

\* each component is the base value of its dimension, computed from the
\* project alone, times the row's multiplier
BreakdownIsBaseTimesMultiplier(row) ==
    /\ row.breakdown.dla = FxMul(calculateDLA(project.tasks), row.multiplier)
    /\ row.breakdown.ta = FxMul(calculateTA(project.throughput), row.multiplier)
    /\ row.breakdown.dqp = FxMul(calculateDQP(project.tasks), row.multiplier)
    /\ row.breakdown.lv = FxMul(calculateLV(project.latency), row.multiplier)
    /\ row.breakdown.olv = FxMul(calculateOLV(project.optionality), row.multiplier)

C29_PaybackImpliesNonNegativeRoi ==
    (FullResultsReturned /\ source = "engine" /\ ValidInputs(project)
       /\ ~ret.value.payback.isNull)
        => /\ ret.value.roi >= 0
           /\ ret.value.totalRiskAdjusted >= ret.value.totalCost

\* a project with a one-time cost whose first month loses money and which
\* breaks even later in the projection
C29_Witness ==
    /\ FullResultsReturned /\ source = "engine" /\ ValidInputs(project)
    /\ ~ret.value.payback.isNull
    /\ initialCost(project.costs) > 0
    /\ projections[1].netValue < 0
    /\ ret.value.roi > 0

---------------------------------------------------------------------------
(* The CompareScenarios component                                          *)
(* (src/calculators/web-app/src/components/CompareScenarios.jsx): the      *)
(* saved scenarios it lists and the selection it keeps, over the scenario  *)
(* store                                                                   *)

MaxSaved == 5

\* the most scenarios a selection takes (prev.length < 4)
MaxSelected == 4

\* a store holding n scenarios saved at the times 1..n
SavedStore(n) ==
    stringify([ t \in 1..n |->
                  savedScenarioOf([ id |-> "", name |-> "A" ], timeString(t),
                                  timeString(t)) ])

\* the component before its first render: useState([]) twice
InitCompare ==
    /\ project = NoProject
    /\ month = 0
    /\ cumulativeNet = 0
    /\ projections = << >>
    /\ source = "caller"
    /\ pc = "mount"
    /\ ret = NoRet
    /\ irr = NoIrr
    /\ NoAnalysis
    /\ localStorage \in { NoItem } \cup { SavedStore(n) : n \in 0..MaxSaved }
    /\ clock = 0
    /\ savedScenarios = << >>
    /\ selectedScenarios = << >>

\* loadScenarios (lines 15-18)
loadScenarios(data) == getAllScenarios(data).value

\* the effect of lines 11-13, run once after the first render
CompareMount ==
    /\ pc = "mount"
    /\ savedScenarios' = loadScenarios(localStorage)
    /\ pc' = "compare"
    /\ UNCHANGED <<engineVars, analysisVars, ret, localStorage, clock, selectedScenarios>>

\* mutant: a fifth scenario is still taken
selectionAfterToggleOffByOne(prev, scenario) ==
    IF findIndex(prev, scenario.id) >= 0 THEN removeById(prev, scenario.id)
    ELSE IF Len(prev) <= MaxSelected THEN Append(prev, scenario)
    ELSE prev

\* the updater of toggleScenarioSelection (lines 27-35)
selectionAfterToggle(prev, scenario) ==
    IF findIndex(prev, scenario.id) >= 0 THEN removeById(prev, scenario.id)
    ELSE IF Len(prev) < MaxSelected THEN Append(prev, scenario)
    ELSE prev

\* a click on the card of a listed scenario (line 122)
ToggleScenarioSelection(scenario) ==
    /\ pc = "compare"
    /\ selectedScenarios' = selectionAfterToggle(selectedScenarios, scenario)
    /\ ret' = [ op |-> "toggleScenarioSelection", scenario |-> scenario,
                prev |-> selectedScenarios ]
    /\ UNCHANGED <<engineVars, analysisVars, pc, localStorage, clock, savedScenarios>>

\* a click on the delete button of a listed scenario: handleDeleteScenario
\* (lines 20-24)
HandleDeleteScenario(id) ==
    /\ pc = "compare"
    /\ LET stored == stringify(removeById(getAllScenarios(localStorage).value, id))
       IN  /\ localStorage' = stored
           /\ savedScenarios' = loadScenarios(stored)
    /\ selectedScenarios' = removeById(selectedScenarios, id)
    /\ ret' = [ op |-> "handleDeleteScenario", id |-> id, prev |-> selectedScenarios ]
    /\ UNCHANGED <<engineVars, analysisVars, pc, clock>>

NextCompare ==
    \/ CompareMount
    \/ \E k \in 1..Len(savedScenarios) : ToggleScenarioSelection(savedScenarios[k])
    \/ \E k \in 1..Len(savedScenarios) : HandleDeleteScenario(savedScenarios[k].id)

SpecCompare == InitCompare /\ [][NextCompare]_vars

\* the ids of a list of scenarios
IdsOf(list) == { list[k].id : k \in 1..Len(list) }

\* C30: selectedScenarios holds at most 4 entries and no two share an id;
\* toggling a selected scenario removes it, toggling an unselected one adds
\* it only while fewer than 4 are selected and otherwise changes nothing,
\* and deleting a scenario removes it from the selection.
C30_SelectionAtMostFourDistinct ==
    /\ Len(selectedScenarios) <= 4
    /\ Cardinality(IdsOf(selectedScenarios)) = Len(selectedScenarios)
    /\ ret.op = "toggleScenarioSelection" =>
          IF ret.scenario.id \in IdsOf(ret.prev)
          THEN /\ IdsOf(selectedScenarios) = IdsOf(ret.prev) \ {ret.scenario.id}
               /\ Len(selectedScenarios) = Len(ret.prev) - 1
          ELSE IF Len(ret.prev) < 4
               THEN selectedScenarios = Append(ret.prev, ret.scenario)
               ELSE selectedScenarios = ret.prev
    /\ ret.op = "handleDeleteScenario" =>
          /\ ret.id \notin IdsOf(selectedScenarios)
          /\ IdsOf(selectedScenarios) = IdsOf(ret.prev) \ {ret.id}
          /\ ret.id \notin IdsOf(savedScenarios)

\* with four scenarios selected, a click on a fifth has left the selection
\* as it was
C30_Witness ==
    /\ ret.op = "toggleScenarioSelection"
    /\ Len(ret.prev) = 4
    /\ ret.scenario.id \notin IdsOf(ret.prev)
    /\ selectedScenarios = ret.prev
    /\ Len(savedScenarios) >= 5

====
